---------------------------- MODULE Spec2Model ----------------------------
(***************************************************************************)
(* Periodic timeseries aggregation of cropclassification:                  *)
(*   - get_file_info            (preprocess/timeseries_util.py)            *)
(*   - calculate_periodic_data  (preprocess/timeseries_util.py)            *)
(*   - collect_and_prepare_timeseries_data (preprocess/timeseries.py)      *)
(*                                                                         *)
(* Numbers.  A float cell of a table is modelled as an exact rational      *)
(* <<num, den>> with den > 0, and NaN as <<0, 0>>.  Rounding of float64 is *)
(* not modelled: two values called equal here are equal up to the          *)
(* rounding of the additions and the division that produce them.           *)
(***************************************************************************)
EXTENDS Integers, Sequences, FiniteSets, TLC

VARIABLES
    cellFiles,   \* the per-image files of one (period, band, orbit) cell, in read order
    cellOut,     \* period_band_data_df after the cell was combined: <<>> (None) or <<table>>
    cphase,      \* "idle" | "read" | "combined"
    fiInput,     \* get_file_info's argument: [path, sep, tokens] (the path and how it was built)
    fiResult,    \* <<>> before the call, then <<what get_file_info returned or raised>>
    imageDir,    \* input_dir: for each name of ImageNames <<>> (no such file) or <<file>>
    periodFiles, \* dest_data_dir, the period files: [<<period_date, sensordata_type>> |-> table]
    pixcountFile,\* dest_data_dir, the pixcount file: <<>> (absent) or <<[entity |-> cell]>>
    lastRun,     \* the arguments and the file operations of the last calculate_periodic_data
                 \* (order: the passes of the period loop, [period_index, key], in order)
    tsDir,       \* timeseries_dir: the files matching the data extension, sorted by path
    featureFile, \* output_path: <<>> (absent) or <<table>>
    manyNullFile,\* the rows_many_null file next to output_path: <<>> (absent) or <<table>>
    lastCollect, \* the arguments and the doings of the last collect_and_prepare_timeseries_data
                 \* (joined: <<result_df after the loop over the files>>, <<>> if it raised)
    rsInput,     \* a value of a column and the image_profile of its file
    rsOutput,    \* <<>>, then <<the value rescaled>>
    binInput,    \* a catalog entry, a sensordata_type, a start date and an end date
    binOutput    \* <<>>, then <<the periods and cells whose period_files_df hold the entry>>

combVars == <<cellFiles, cellOut, cphase>>
parseVars == <<fiInput, fiResult>>
runVars == <<imageDir, periodFiles, pixcountFile, lastRun>>
collectVars == <<tsDir, featureFile, manyNullFile, lastCollect>>
rescaleVars == <<rsInput, rsOutput>>
binVars == <<binInput, binOutput>>
vars == <<cellFiles, cellOut, cphase, fiInput, fiResult,
          imageDir, periodFiles, pixcountFile, lastRun,
          tsDir, featureFile, manyNullFile, lastCollect, rsInput, rsOutput,
          binInput, binOutput>>

----------------------------------------------------------------------------
(* Bounds *)

\* most per-image files in one cell
MaxFiles == 3

----------------------------------------------------------------------------
(* Float cells as rationals *)

NaN == <<0, 0>>
IsNaN(v) == v[2] = 0
Abs(n) == IF n < 0 THEN -n ELSE n

RECURSIVE GCD(_, _)
GCD(a, b) == IF b = 0 THEN a ELSE GCD(b, a % b)

Norm(v) ==
    IF v[2] = 0 THEN NaN
    ELSE LET g == GCD(Abs(v[1]), Abs(v[2]))
             s == IF v[2] < 0 THEN -1 ELSE 1
         IN  <<(s * v[1]) \div g, (s * v[2]) \div g>>

R(n) == <<n, 1>>
RLess(x, y) == x[1] * y[2] < y[1] * x[2]
RLeq(x, y) == x[1] * y[2] <= y[1] * x[2]
RAdd(x, y) == Norm(<<x[1] * y[2] + y[1] * x[2], x[2] * y[2]>>)
\* x / k for an integer k; k = 0 gives NaN (numpy: 0/0, with a RuntimeWarning)
RDivInt(x, k) == Norm(<<x[1], x[2] * k>>)

\* the values of `vals` that are not NaN, in order
NotNaN(vals) == SelectSeq(vals, LAMBDA v : ~IsNaN(v))

RECURSIVE FoldMax(_, _)
FoldMax(acc, vals) ==
    IF vals = <<>> THEN acc
    ELSE FoldMax(IF IsNaN(acc) \/ RLess(acc, Head(vals)) THEN Head(vals) ELSE acc,
                 Tail(vals))

RECURSIVE FoldMin(_, _)
FoldMin(acc, vals) ==
    IF vals = <<>> THEN acc
    ELSE FoldMin(IF IsNaN(acc) \/ RLess(Head(vals), acc) THEN Head(vals) ELSE acc,
                 Tail(vals))

RECURSIVE FoldSum(_, _)
FoldSum(acc, vals) ==
    IF vals = <<>> THEN acc ELSE FoldSum(RAdd(acc, Head(vals)), Tail(vals))

\* (mutant: a NaN in the row makes the result NaN)
NanMax_Propagating(vals) == IF \E i \in DOMAIN vals : IsNaN(vals[i]) THEN NaN ELSE FoldMax(NaN, vals)
NanMax(vals) == FoldMax(NaN, NotNaN(vals))

\* np.nanmin of one row
NanMin_First(vals) == IF vals = <<>> THEN NaN ELSE vals[1]
NanMin(vals) == FoldMin(NaN, NotNaN(vals))

\* np.nanmean of one row: the sum of the values that are not NaN over their number
NanMean_OverAll(vals) == RDivInt(FoldSum(R(0), NotNaN(vals)), Len(vals))
NanMean(vals) == RDivInt(FoldSum(R(0), NotNaN(vals)), Len(NotNaN(vals)))

\* DataFrame.count(axis=1): the number of cells of the row that are not NaN
CountNotNaN(vals) == R(Len(NotNaN(vals)))


----------------------------------------------------------------------------
(* Strings are sequences of one-character strings *)

\* string literals of the source and of the file names used
Str_S1 == <<"S", "1">>
Str_S2 == <<"S", "2">>
Str_GRDH == <<"G", "R", "D", "H">>
Str_DoubleUnderscore == <<"_", "_">>
Str_Underscore == <<"_">>
Str_S1A == <<"S", "1", "A">>
Str_S1B == <<"S", "1", "B">>
Str_S2A == <<"S", "2", "A">>
Str_L8 == <<"L", "8">>
Str_20180101T055812 == <<"2", "0", "1", "8", "0", "1", "0", "1", "T", "0", "5", "5", "8", "1", "2">>
Str_20180311T172345 == <<"2", "0", "1", "8", "0", "3", "1", "1", "T", "1", "7", "2", "3", "4", "5">>
Str_2018131 == <<"2", "0", "1", "8", "1", "3", "1">>
Str_20180230T055812 == <<"2", "0", "1", "8", "0", "2", "3", "0", "T", "0", "5", "5", "8", "1", "2">>
Str_IW == <<"I", "W">>
Str_SLC == <<"S", "L", "C">>
Str_1SDV == <<"1", "S", "D", "V">>
Str_MSIL2A == <<"M", "S", "I", "L", "2", "A">>
Str_ASC == <<"A", "S", "C">>
Str_DESC == <<"D", "E", "S", "C">>
Str_VV == <<"V", "V">>
Str_VH == <<"V", "H">>
Str_B02_10m == <<"B", "0", "2", "-", "1", "0", "m">>
Str_parcels == <<"p", "a", "r", "c", "e", "l", "s">>
Str_sqlite == <<".", "s", "q", "l", "i", "t", "e">>

StartsWith(str, prefix) ==
    Len(str) >= Len(prefix) /\ SubSeq(str, 1, Len(prefix)) = prefix

\* str.split(sep) for a non-empty sep: the pieces between the occurrences of sep,
\* found from the left and not overlapping
RECURSIVE SplitFrom(_, _, _, _)
SplitFrom(str, sep, i, start) ==
    IF i + Len(sep) - 1 > Len(str) THEN <<SubSeq(str, start, Len(str))>>
    ELSE IF SubSeq(str, i, i + Len(sep) - 1) = sep
         THEN <<SubSeq(str, start, i - 1)>> \o SplitFrom(str, sep, i + Len(sep), i + Len(sep))
         ELSE SplitFrom(str, sep, i + 1, start)
SplitOn(str, sep) == SplitFrom(str, sep, 1, 1)

\* str.rfind(ch): the last position of ch, 0 when there is none
LastIndexOf(str, ch) ==
    IF \E i \in DOMAIN str : str[i] = ch
    THEN CHOOSE i \in DOMAIN str : str[i] = ch /\ \A j \in DOMAIN str : str[j] = ch => j <= i
    ELSE 0

\* os.path.splitext(path)[0]: the path without the extension of its last component; a
\* component made of leading dots only has no extension
SplitExtRoot(path) ==
    LET sepIndex == LastIndexOf(path, "/")
        dotIndex == LastIndexOf(path, ".")
    IN  IF dotIndex > sepIndex /\ \E k \in (sepIndex + 1)..(dotIndex - 1) : path[k] # "."
        THEN SubSeq(path, 1, dotIndex - 1)
        ELSE path

Digits == <<"0", "1", "2", "3", "4", "5", "6", "7", "8", "9">>
IsDigit(c) == \E i \in DOMAIN Digits : Digits[i] = c
DigitVal(c) == (CHOOSE i \in DOMAIN Digits : Digits[i] = c) - 1

----------------------------------------------------------------------------
(* Dates (datetime at midnight): [year, month, day] *)

IsLeap(y) == (y % 4 = 0) /\ ((y % 100 # 0) \/ (y % 400 = 0))
DaysInMonth(y, m) ==
    IF m = 2 THEN (IF IsLeap(y) THEN 29 ELSE 28)
    ELSE IF m \in {4, 6, 9, 11} THEN 30 ELSE 31
RECURSIVE DaysBeforeMonth(_, _)
DaysBeforeMonth(y, m) == IF m = 1 THEN 0 ELSE DaysBeforeMonth(y, m - 1) + DaysInMonth(y, m - 1)
DaysBeforeYear(y) == (y - 1) * 365 + ((y - 1) \div 4) - ((y - 1) \div 100) + ((y - 1) \div 400)
\* date.toordinal(): 0001-01-01 is day 1
Ordinal(dt) == DaysBeforeYear(dt.year) + DaysBeforeMonth(dt.year, dt.month) + dt.day
\* date.weekday(): Monday is 0
Weekday(dt) == (Ordinal(dt) + 6) % 7
\* tm_yday - 1
YearDay0(dt) == DaysBeforeMonth(dt.year, dt.month) + dt.day - 1
\* int(strftime('%W')): week of the year, weeks start on Monday, the days before the
\* first Monday are week 0
WeekOfYear(dt) == (YearDay0(dt) + 7 - Weekday(dt)) \div 7

\* the ways the regular expression of %m and of %d can match at position p of str, in the
\* order the alternatives are tried: <<value, length>>
MonthMatches(str, p) ==
    (IF /\ p + 1 <= Len(str) /\ IsDigit(str[p]) /\ IsDigit(str[p + 1])
        /\ 10 * DigitVal(str[p]) + DigitVal(str[p + 1]) \in 1..12
     THEN << <<10 * DigitVal(str[p]) + DigitVal(str[p + 1]), 2>> >> ELSE <<>>)
    \o (IF p <= Len(str) /\ IsDigit(str[p]) /\ DigitVal(str[p]) >= 1
        THEN << <<DigitVal(str[p]), 1>> >> ELSE <<>>)
DayMatches(str, p) ==
    (IF /\ p + 1 <= Len(str) /\ IsDigit(str[p]) /\ IsDigit(str[p + 1])
        /\ 10 * DigitVal(str[p]) + DigitVal(str[p + 1]) \in 1..31
     THEN << <<10 * DigitVal(str[p]) + DigitVal(str[p + 1]), 2>> >> ELSE <<>>)
    \o (IF p <= Len(str) /\ IsDigit(str[p]) /\ DigitVal(str[p]) >= 1
        THEN << <<DigitVal(str[p]), 1>> >> ELSE <<>>)
    \o (IF /\ p + 1 <= Len(str) /\ str[p] = " " /\ IsDigit(str[p + 1])
           /\ DigitVal(str[p + 1]) >= 1
        THEN << <<DigitVal(str[p + 1]), 2>> >> ELSE <<>>)

\* datetime.strptime(str, '%Y%m%d'): <<>> for a ValueError, else <<date>>.  The first
\* match of the expression is taken; text left after it, or a day the month does not
\* have, is an error.
Strptime_Ymd(str) ==
    IF ~(Len(str) >= 4 /\ \A i \in 1..4 : IsDigit(str[i])) THEN <<>>
    ELSE
      LET year == 1000 * DigitVal(str[1]) + 100 * DigitVal(str[2])
                    + 10 * DigitVal(str[3]) + DigitVal(str[4])
          ms == MonthMatches(str, 5)
          \* the matches <<month, day, end>> in the order they are tried
          tries == [i \in DOMAIN ms |->
                      LET ds == DayMatches(str, 5 + ms[i][2])
                      IN  [j \in DOMAIN ds |-> <<ms[i][1], ds[j][1], 4 + ms[i][2] + ds[j][2]>>]]
          all == IF Len(ms) = 0 THEN <<>>
                 ELSE IF Len(ms) = 1 THEN tries[1] ELSE tries[1] \o tries[2]
      IN  IF all = <<>> THEN <<>>
          ELSE IF all[1][3] # Len(str) THEN <<>>
          ELSE IF year < 1 \/ all[1][2] > DaysInMonth(year, all[1][1]) THEN <<>>
          ELSE <<[year |-> year, month |-> all[1][1], day |-> all[1][2]]>>

----------------------------------------------------------------------------
(* get_file_info *)

IMAGETYPE_S1_GRD == "S1_GRD"
IMAGETYPE_S1_COHERENCE == "S1_COH"
IMAGETYPE_S2_L2A == "S2_L2A"

\* imagetype and filedatetime by the layout of the tokens: <<>> when a token that is read
\* does not exist (IndexError) or no branch assigns them (UnboundLocalError)
ImageTypeAndDate_ElseS2(vals) ==
    IF StartsWith(vals[1], Str_S1)
    THEN IF Len(vals) < 3 THEN <<>>
         ELSE IF vals[3] = Str_GRDH
              THEN (IF Len(vals) < 5 THEN <<>> ELSE <<[imagetype |-> IMAGETYPE_S1_GRD,
                                                       filedatetime |-> vals[5]]>>)
              ELSE IF StartsWith(vals[2], Str_S1)
                   THEN <<[imagetype |-> IMAGETYPE_S1_COHERENCE, filedatetime |-> vals[3]]>>
                   ELSE <<>>
    ELSE IF Len(vals) < 3 THEN <<>>
         ELSE <<[imagetype |-> IMAGETYPE_S2_L2A, filedatetime |-> vals[3]]>>
ImageTypeAndDate(vals) ==
    IF StartsWith(vals[1], Str_S1)
    THEN IF Len(vals) < 3 THEN <<>>
         ELSE IF vals[3] = Str_GRDH
              THEN (IF Len(vals) < 5 THEN <<>> ELSE <<[imagetype |-> IMAGETYPE_S1_GRD,
                                                       filedatetime |-> vals[5]]>>)
              ELSE IF StartsWith(vals[2], Str_S1)
                   THEN <<[imagetype |-> IMAGETYPE_S1_COHERENCE, filedatetime |-> vals[3]]>>
                   ELSE <<>>
    ELSE IF StartsWith(vals[1], Str_S2)
         THEN (IF Len(vals) < 3 THEN <<>>
               ELSE <<[imagetype |-> IMAGETYPE_S2_L2A, filedatetime |-> vals[3]]>>)
         ELSE <<>>

\* fileorbit: the second-last token for S1, None (<<>>) otherwise; as <<orbit>>
FileOrbit_Last(vals) ==
    IF StartsWith(vals[1], Str_S1) THEN <<vals[Len(vals)]>> ELSE <<>>
FileOrbit(vals) ==
    IF StartsWith(vals[1], Str_S1) THEN <<vals[Len(vals) - 1]>> ELSE <<>>

\* the exception get_file_info raises: its message names the path
RaiseFileInfo(filepath) ==
    [ok |-> FALSE, message |-> <<"Error extracting info from filename ", filepath>>]

\* get_file_info(filepath): [ok |-> TRUE, info |-> filenameparts] or the exception
get_file_info(filepath) ==
    LET filename == SplitExtRoot(filepath)
        filename_splitted == SplitOn(filename, Str_DoubleUnderscore)
    IN  IF Len(filename_splitted) < 2 THEN RaiseFileInfo(filepath)
        ELSE
          LET imageinfo_values == SplitOn(filename_splitted[2], Str_Underscore)
              layout == ImageTypeAndDate(imageinfo_values)
          IN  IF layout = <<>> THEN RaiseFileInfo(filepath)
              ELSE
                LET filedate == SplitOn(layout[1].filedatetime, <<"T">>)[1]
                    parseddate == Strptime_Ymd(filedate)
                IN  IF parseddate = <<>> THEN RaiseFileInfo(filepath)
                    ELSE [ok |-> TRUE,
                          info |-> [filepath |-> filepath,
                                    imagetype |-> layout[1].imagetype,
                                    filename |-> filename,
                                    date |-> parseddate[1],
                                    week |-> WeekOfYear(parseddate[1]),
                                    band |-> imageinfo_values[Len(imageinfo_values)],
                                    orbit |-> FileOrbit(imageinfo_values)]]

----------------------------------------------------------------------------
(* Specification of get_file_info: a path is built from tokens, then parsed *)

RECURSIVE JoinWith(_, _)
JoinWith(tokens, sep) ==
    IF tokens = <<>> THEN <<>>
    ELSE IF Len(tokens) = 1 THEN tokens[1]
    ELSE tokens[1] \o sep \o JoinWith(Tail(tokens), sep)

PathSatellites == {Str_S1A, Str_S1B, Str_S2A, Str_L8}
PathDates == {Str_20180101T055812, Str_20180311T172345, Str_2018131, Str_20180230T055812}
PathMiddles ==
    {<<Str_IW, Str_GRDH, Str_1SDV, d>> : d \in PathDates}
    \cup {<<Str_IW, Str_SLC, Str_1SDV, d>> : d \in PathDates}
    \cup {<<Str_S1B, d, Str_20180311T172345>> : d \in PathDates}
    \cup {<<Str_MSIL2A, d>> : d \in PathDates}
    \cup {<<Str_IW, Str_GRDH>>, <<Str_IW>>, <<>>}
PathTails == {<<Str_ASC, Str_VV>>, <<Str_DESC, Str_VH>>, <<Str_B02_10m>>, <<>>}
PathSeparators == {Str_DoubleUnderscore, Str_Underscore}

BuildPath(sep, tokens) == Str_parcels \o sep \o JoinWith(tokens, Str_Underscore) \o Str_sqlite

\* the values of the variables of the specifications that are not running
NoRun ==
    [ran |-> FALSE, rerun |-> FALSE, force |-> FALSE, window |-> <<>>, sensors |-> <<>>,
     order |-> <<>>, skipped |-> {}, removed |-> {}, computed |-> {}, written |-> {},
     pixWritten |-> FALSE, raised |-> FALSE]
IdleRun ==
    /\ imageDir = <<>>
    /\ periodFiles = <<>>
    /\ pixcountFile = <<>>
    /\ lastRun = NoRun
IdleInput == [path |-> <<>>, sep |-> <<>>, tokens |-> <<>>]

NoCollect ==
    [ran |-> FALSE, rerun |-> FALSE, force |-> FALSE, args |-> <<>>, returned |-> FALSE,
     raised |-> FALSE, skipped |-> {}, rejected |-> {}, checked |-> {}, dropped |-> {},
     joined |-> <<>>, written |-> FALSE, manyNullWritten |-> FALSE]
IdleCollect ==
    /\ tsDir = <<>> /\ featureFile = <<>> /\ manyNullFile = <<>> /\ lastCollect = NoCollect
IdleRescale == rsInput = <<>> /\ rsOutput = <<>>
IdleBinning == binInput = <<>> /\ binOutput = <<>>

InitParse ==
    /\ IdleRescale
    /\ IdleBinning
    /\ \E sat \in PathSatellites, mid \in PathMiddles, tail \in PathTails,
          sep \in PathSeparators :
          fiInput = [path |-> BuildPath(sep, <<sat>> \o mid \o tail),
                     sep |-> sep, tokens |-> <<sat>> \o mid \o tail]
    /\ fiResult = <<>>
    /\ cellFiles = <<>> /\ cellOut = <<>> /\ cphase = "idle"
    /\ IdleRun
    /\ IdleCollect

ParseStep ==
    /\ fiInput # IdleInput
    /\ fiResult = <<>>
    /\ fiResult' = <<get_file_info(fiInput.path)>>
    /\ UNCHANGED <<fiInput, combVars, runVars, collectVars, rescaleVars, binVars>>

NextParse == ParseStep

SpecParse == InitParse /\ [][NextParse]_vars

----------------------------------------------------------------------------
(* Statistic combiner: one (period, band, orbit) cell of calculate_periodic_data *)

\* statistic_columns_dict, in dict order
StatCols == <<"count", "max", "mean", "min", "std">>
StatSet == {StatCols[i] : i \in DOMAIN StatCols}

\* A per-image file is [empty |-> os.path.getsize = 0, rows |-> [entity |-> [stat |-> cell]]].
ZeroByteFile == [empty |-> TRUE, rows |-> <<>>]
TableFile(rows) == [empty |-> FALSE, rows |-> rows]

\* enumerate(period_files_df.filepath.tolist()) without the zero-byte files:
\* the (1-based) positions j+1 of the files that are read, in order
RECURSIVE ContributingFrom(_, _)
ContributingFrom(files, j) ==
    IF j > Len(files) THEN <<>>
    ELSE IF files[j].empty THEN ContributingFrom(files, j + 1)
    ELSE <<j>> \o ContributingFrom(files, j + 1)
Contributing(files) == ContributingFrom(files, 1)

\* statistic_columns_dict[stat] after the loop: the renamed columns stat + str(j+1)
StatColumns(files, stat) ==
    [k \in 1..Len(Contributing(files)) |-> <<stat, Contributing(files)[k]>>]

\* index of period_band_data_df after the outer concat of the files read
JoinedEntities(files) ==
    UNION {DOMAIN files[Contributing(files)[k]].rows : k \in 1..Len(Contributing(files))}

\* period_band_data_df[col] for entity e: the file's cell, NaN where the file has no row for e
JoinedCell(files, e, col) ==
    IF e \in DOMAIN files[col[2]].rows THEN files[col[2]].rows[e][col[1]] ELSE NaN

\* the row of entity e restricted to the columns `cols` (a sequence of column names)
JoinedRow(files, e, cols) == [k \in DOMAIN cols |-> JoinedCell(files, e, cols[k])]

\* columns_to_keep
KeptColumns(basename) ==
    << <<basename, "count">>, <<basename, "max">>, <<basename, "mean">>,
       <<basename, "min">>, <<basename, "std">>, <<basename, "used_files">> >>

\* the six derived cells of entity e
UsedFiles_OfCount(files, e) == CountNotNaN(JoinedRow(files, e, StatColumns(files, "count")))
UsedFiles(files, e) == CountNotNaN(JoinedRow(files, e, StatColumns(files, "max")))

CombinedCell(files, e, stat) ==
    CASE stat = "count" -> NanMax(JoinedRow(files, e, StatColumns(files, "count")))
      [] stat = "max" -> NanMax(JoinedRow(files, e, StatColumns(files, "max")))
      [] stat = "mean" -> NanMean(JoinedRow(files, e, StatColumns(files, "mean")))
      [] stat = "min" -> NanMin(JoinedRow(files, e, StatColumns(files, "min")))
      [] stat = "std" -> NanMean(JoinedRow(files, e, StatColumns(files, "std")))
      [] stat = "used_files" -> UsedFiles(files, e)

\* A table is [columns |-> sequence of column names, rows |-> [entity |-> [column |-> cell]]].
\* period_band_data_df after columns_to_keep: <<>> when no file was read (None)
CombineCell(files, basename) ==
    IF Contributing(files) = <<>> THEN <<>>
    ELSE << [columns |-> KeptColumns(basename),
             rows |-> [e \in JoinedEntities(files) |->
                         [c \in {KeptColumns(basename)[i] : i \in 1..6} |->
                             CombinedCell(files, e, c[2])]]] >>

----------------------------------------------------------------------------
(* Specification of one cell: the files of the cell are drawn, then combined *)

Entities == {"p1", "p2"}
MkRow(c, m) == [count |-> c, max |-> m, mean |-> c, min |-> c, std |-> m]

\* the rows a file may hold for p1 alone, and for p1 when it also holds p2
RowsAlone == {MkRow(NaN, NaN), MkRow(R(1), R(3)), MkRow(R(2), NaN)}
RowsBoth == {MkRow(NaN, R(3)), MkRow(R(1), R(3)), MkRow(R(2), NaN)}

\* the files a cell is drawn from: a zero-byte file, a table without rows, a table with
\* a row for p1, and a table with rows for p1 and p2 (p2 holds p1's row with the count
\* and the max exchanged)
FileChoices ==
    {ZeroByteFile, TableFile(<<>>)}
    \cup {TableFile([e \in {"p1"} |-> r]) : r \in RowsAlone}
    \cup {TableFile([e \in Entities |-> IF e = "p1" THEN r ELSE MkRow(r.max, r.count)]) :
             r \in RowsBoth}

\* column_basename of the cell: <<period_date_str_short, imagetype, orbit, band>>
CellBasename == <<"20180305", "S1_GRD", "ASC", "VV">>

InitCombine ==
    /\ IdleRescale
    /\ IdleBinning
    /\ \E n \in 1..MaxFiles : cellFiles \in [1..n -> FileChoices]
    /\ cellOut = <<>>
    /\ cphase = "read"
    /\ fiInput = IdleInput /\ fiResult = <<>>
    /\ IdleRun
    /\ IdleCollect

CombineStep ==
    /\ cphase = "read"
    /\ cellOut' = CombineCell(cellFiles, CellBasename)
    /\ cphase' = "combined"
    /\ UNCHANGED <<cellFiles, parseVars, runVars, collectVars, rescaleVars, binVars>>

NextCombine == CombineStep

SpecCombine == InitCombine /\ [][NextCombine]_vars

\* The end-to-end scenario of the documentation (values in tenths): three non-empty files of
\* week 10 (Monday 2018-03-05), band VV, orbit ASC; entity p1 has counts [5, 3, NaN],
\* means [0.2, 0.4, 0.6], mins [0.1, 0.1, 0.5]; max and std are not given and are drawn.
ScenarioMax == {NaN, R(7), R(9)}
ScenarioStd == {NaN, R(1)}
ScenarioCount == <<R(5), R(3), NaN>>
ScenarioMean == <<R(2), R(4), R(6)>>
ScenarioMin == <<R(1), R(1), R(5)>>

InitScenario ==
    /\ IdleRescale
    /\ IdleBinning
    /\ \E mx \in [1..3 -> ScenarioMax], sd \in [1..3 -> ScenarioStd] :
          cellFiles = [j \in 1..3 |->
              TableFile([e \in {"p1"} |->
                  [count |-> ScenarioCount[j], max |-> mx[j], mean |-> ScenarioMean[j],
                   min |-> ScenarioMin[j], std |-> sd[j]]])]
    /\ cellOut = <<>>
    /\ cphase = "read"
    /\ fiInput = IdleInput /\ fiResult = <<>>
    /\ IdleRun
    /\ IdleCollect

SpecScenario == InitScenario /\ [][NextCombine]_vars

----------------------------------------------------------------------------
(* Properties of the combiner *)

Injective(f) == \A i, j \in DOMAIN f : f[i] = f[j] => i = j
Perms(n) == {p \in [1..n -> 1..n] : Injective(p)}
Permute(files, p) == [i \in DOMAIN files |-> files[p[i]]]

OutCol(stat) == <<CellBasename, stat>>
OutRows == cellOut[1].rows

\* the cells of entity e for statistic stat that the read files hold, in read order
PresentVals(files, e, stat) ==
    LET has(j) == /\ ~files[j].empty
                  /\ e \in DOMAIN files[j].rows
                  /\ ~IsNaN(files[j].rows[e][stat])
        idx == SelectSeq([j \in DOMAIN files |-> j], has)
    IN  [k \in DOMAIN idx |-> files[idx[k]].rows[e][stat]]

\* the files that hold a cell of entity e for statistic stat
FilesWith(files, e, stat) ==
    SelectSeq(files, LAMBDA f : /\ ~f.empty
                                /\ e \in DOMAIN f.rows
                                /\ ~IsNaN(f.rows[e][stat]))

Range(q) == {q[i] : i \in DOMAIN q}
MaxOf(vals) == CHOOSE v \in Range(vals) : \A w \in Range(vals) : RLeq(w, v)
MinOf(vals) == CHOOSE v \in Range(vals) : \A w \in Range(vals) : RLeq(v, w)
RECURSIVE SumOf(_)
SumOf(vals) == IF vals = <<>> THEN R(0) ELSE RAdd(Head(vals), SumOf(Tail(vals)))
MeanOf(vals) == Norm(<<SumOf(vals)[1], SumOf(vals)[2] * Len(vals)>>)

\* C1: whatever the order in which the files of a cell are read, the combined table is
\* the same: every entity has the same count, max, mean, min and std (and used_files).
C1_Commutative ==
    cphase = "combined" =>
        \A p \in Perms(Len(cellFiles)) :
            CombineCell(Permute(cellFiles, p), CellBasename) = cellOut

C1_Witness ==
    /\ cphase = "combined"
    /\ Len(cellFiles) = 3
    /\ cellOut # <<>>
    /\ \A i, j \in 1..3 : i # j => cellFiles[i] # cellFiles[j]
    /\ \E j \in 1..3 : cellFiles[j].empty
    /\ "p1" \in DOMAIN OutRows /\ ~IsNaN(OutRows["p1"][OutCol("mean")])

\* the result of a group of files as a per-image file (its five statistic columns)
AsFile(t) ==
    TableFile([e \in DOMAIN t.rows |-> [s \in StatSet |-> t.rows[e][<<CellBasename, s>>]]])

SubSeqOf(files, A) == SelectSeq([j \in DOMAIN files |-> j], LAMBDA j : j \in A)
Group(files, A) == [k \in DOMAIN SubSeqOf(files, A) |-> files[SubSeqOf(files, A)[k]]]

\* the files split in the groups A and the rest, each group combined, the results combined
Regroup(files, A) ==
    LET ga == CombineCell(Group(files, A), CellBasename)
        gb == CombineCell(Group(files, (DOMAIN files) \ A), CellBasename)
        fa == IF ga = <<>> THEN <<>> ELSE <<AsFile(ga[1])>>
        fb == IF gb = <<>> THEN <<>> ELSE <<AsFile(gb[1])>>
    IN  CombineCell(fa \o fb, CellBasename)

SameStats(t, u, stats) ==
    /\ (t = <<>>) <=> (u = <<>>)
    /\ t # <<>> =>
         /\ DOMAIN t[1].rows = DOMAIN u[1].rows
         /\ \A e \in DOMAIN t[1].rows : \A s \in stats :
               t[1].rows[e][OutCol(s)] = u[1].rows[e][OutCol(s)]

\* C2 as claimed: combining the results of the groups of any split gives the same count,
\* max, mean, min and std as combining all files of the cell at once.
C2_Associative_AsClaimed ==
    cphase = "combined" =>
        \A A \in SUBSET (DOMAIN cellFiles) :
            SameStats(Regroup(cellFiles, A), cellOut, StatSet)

\* the groups of the split that hold a cell of e for stat hold the same number of them
EvenSplit(files, A, e, stat) ==
    LET na == Len(PresentVals(Group(files, A), e, stat))
        nb == Len(PresentVals(Group(files, (DOMAIN files) \ A), e, stat))
    IN  na = 0 \/ nb = 0 \/ na = nb

\* C2 (amended): combining the results of the groups of any split gives the same count,
\* max and min as combining all files at once; it gives the same mean and std when the
\* groups that hold a value for the entity hold equally many (the combiner takes the
\* unweighted mean of the group means).
C2_Associative ==
    cphase = "combined" =>
        \A A \in SUBSET (DOMAIN cellFiles) :
            LET r == Regroup(cellFiles, A) IN
            /\ SameStats(r, cellOut, {"count", "max", "min"})
            /\ r # <<>> =>
                 \A e \in DOMAIN r[1].rows : \A s \in {"mean", "std"} :
                     EvenSplit(cellFiles, A, e, s) =>
                         r[1].rows[e][OutCol(s)] = OutRows[e][OutCol(s)]

C2_Witness ==
    /\ cphase = "combined"
    /\ Len(cellFiles) = 3
    /\ cellOut # <<>>
    /\ "p1" \in DOMAIN OutRows
    /\ Len(PresentVals(cellFiles, "p1", "mean")) = 3
    /\ Regroup(cellFiles, {1, 2})[1].rows["p1"][OutCol("mean")] # OutRows["p1"][OutCol("mean")]
    /\ Regroup(cellFiles, {1, 2})[1].rows["p1"][OutCol("min")] = OutRows["p1"][OutCol("min")]

\* C3: a combined value is missing exactly when every file read is missing it (NaN, or no
\* row for the entity); otherwise it lies between the smallest and the largest value
\* present and does not change when the files that are missing it are left out.
C3_MissingPropagation ==
    (cphase = "combined" /\ cellOut # <<>>) =>
        \A e \in DOMAIN OutRows : \A s \in StatSet :
            LET pv == PresentVals(cellFiles, e, s)
                v == OutRows[e][OutCol(s)]
            IN  /\ (pv = <<>>) => IsNaN(v)
                /\ (pv # <<>>) =>
                     /\ ~IsNaN(v)
                     /\ RLeq(MinOf(pv), v) /\ RLeq(v, MaxOf(pv))
                     /\ v = CombineCell(FilesWith(cellFiles, e, s),
                                        CellBasename)[1].rows[e][OutCol(s)]

C3_Witness ==
    /\ cphase = "combined"
    /\ cellOut # <<>>
    /\ "p1" \in DOMAIN OutRows
    /\ IsNaN(OutRows["p1"][OutCol("max")])
    /\ ~IsNaN(OutRows["p1"][OutCol("count")])
    /\ Len(PresentVals(cellFiles, "p1", "count")) < Len(Contributing(cellFiles))
    /\ Len(Contributing(cellFiles)) >= 2

\* C4: the combined row of every entity is count = max of the counts, max = max of the
\* max, mean = mean of the means, min = min of the mins, std = mean of the std (each over
\* the values the files hold), used_files = number of files read whose max is not
\* missing; the table has these six columns and no other.
C4_CombinedRow ==
    (cphase = "combined" /\ Contributing(cellFiles) # <<>>) =>
        /\ cellOut # <<>>
        /\ cellOut[1].columns = <<OutCol("count"), OutCol("max"), OutCol("mean"),
                                  OutCol("min"), OutCol("std"), OutCol("used_files")>>
        /\ DOMAIN OutRows =
             {e \in Entities : \E j \in DOMAIN cellFiles :
                                  ~cellFiles[j].empty /\ e \in DOMAIN cellFiles[j].rows}
        /\ \A e \in DOMAIN OutRows :
             LET pv(s) == PresentVals(cellFiles, e, s)
                 row == OutRows[e]
             IN  /\ DOMAIN row = Range(cellOut[1].columns)
                 /\ row[OutCol("count")] = IF pv("count") = <<>> THEN NaN ELSE MaxOf(pv("count"))
                 /\ row[OutCol("max")] = IF pv("max") = <<>> THEN NaN ELSE MaxOf(pv("max"))
                 /\ row[OutCol("mean")] = IF pv("mean") = <<>> THEN NaN ELSE MeanOf(pv("mean"))
                 /\ row[OutCol("min")] = IF pv("min") = <<>> THEN NaN ELSE MinOf(pv("min"))
                 /\ row[OutCol("std")] = IF pv("std") = <<>> THEN NaN ELSE MeanOf(pv("std"))
                 /\ row[OutCol("used_files")] =
                      R(Cardinality({j \in DOMAIN cellFiles :
                                        /\ ~cellFiles[j].empty
                                        /\ e \in DOMAIN cellFiles[j].rows
                                        /\ ~IsNaN(cellFiles[j].rows[e]["max"])}))

C4_Witness ==
    /\ cphase = "combined"
    /\ cellOut # <<>>
    /\ Len(Contributing(cellFiles)) = 3
    /\ "p1" \in DOMAIN OutRows /\ "p2" \in DOMAIN OutRows
    /\ OutRows["p1"][OutCol("used_files")] = R(2)
    /\ OutRows["p1"][OutCol("mean")] = <<3, 2>>

\* C5 as claimed: in the scenario the combined row of p1 has count = 5, mean = 0.4,
\* min = 0.1 and used_files = 2.
C5_Scenario_AsClaimed ==
    cphase = "combined" =>
        /\ OutRows["p1"][OutCol("count")] = R(5)
        /\ OutRows["p1"][OutCol("mean")] = R(4)
        /\ OutRows["p1"][OutCol("min")] = R(1)
        /\ OutRows["p1"][OutCol("used_files")] = R(2)

\* C5 (amended): in the scenario the combined row of p1 has count = 5, mean = 0.4 and
\* min = 0.1; used_files is the number of the three files whose max is not missing
\* (3 when every file has a max, 2 when exactly one file lacks it: a missing count does
\* not lower it).
C5_Scenario ==
    cphase = "combined" =>
        /\ OutRows["p1"][OutCol("count")] = R(5)
        /\ OutRows["p1"][OutCol("mean")] = R(4)
        /\ OutRows["p1"][OutCol("min")] = R(1)
        /\ OutRows["p1"][OutCol("used_files")] =
             R(Cardinality({j \in 1..3 : ~IsNaN(cellFiles[j].rows["p1"]["max"])}))

C5_Witness ==
    /\ cphase = "combined"
    /\ IsNaN(cellFiles[3].rows["p1"]["max"])
    /\ ~IsNaN(cellFiles[1].rows["p1"]["max"]) /\ ~IsNaN(cellFiles[2].rows["p1"]["max"])
    /\ OutRows["p1"][OutCol("used_files")] = R(2)
    /\ OutRows["p1"][OutCol("count")] = R(5)

----------------------------------------------------------------------------
(* Properties of get_file_info *)

Parsed == fiResult # <<>>

\* parcels__S1A_IW_GRDH_1SDV_20180101T055812_ASC_VV.sqlite
ScenarioPath ==
    <<"p", "a", "r", "c", "e", "l", "s", "_", "_", "S", "1", "A", "_", "I",
       "W", "_", "G", "R", "D", "H", "_", "1", "S", "D", "V", "_", "2", "0",
       "1", "8", "0", "1", "0", "1", "T", "0", "5", "5", "8", "1", "2", "_",
       "A", "S", "C", "_", "V", "V", ".", "s", "q", "l", "i", "t", "e">>

IsS1(tokens) == StartsWith(tokens[1], Str_S1)
IsS2(tokens) == StartsWith(tokens[1], Str_S2)
LayoutGRDH(tokens) == IsS1(tokens) /\ Len(tokens) >= 3 /\ tokens[3] = Str_GRDH
LayoutCoherence(tokens) == IsS1(tokens) /\ Len(tokens) >= 2 /\ StartsWith(tokens[2], Str_S1)
Recognized(inp) ==
    /\ inp.sep = Str_DoubleUnderscore
    /\ LayoutGRDH(inp.tokens) \/ LayoutCoherence(inp.tokens) \/ IsS2(inp.tokens)

RaisedFor(inp) ==
    /\ ~fiResult[1].ok
    /\ fiResult[1].message = <<"Error extracting info from filename ", inp.path>>

\* C7: for a path of none of the three layouts get_file_info returns no record: it raises
\* an error whose message names the path.  So it does for a path without '__', with fewer
\* than three tokens, with a satellite that is neither S1 nor S2, and for an S1 name that
\* is neither GRDH nor coherence.
C7_UnrecognizedRaises ==
    Parsed =>
        /\ ~Recognized(fiInput) => RaisedFor(fiInput)
        /\ fiInput.sep # Str_DoubleUnderscore => RaisedFor(fiInput)
        /\ Len(fiInput.tokens) < 3 => RaisedFor(fiInput)
        /\ (~IsS1(fiInput.tokens) /\ ~IsS2(fiInput.tokens)) => RaisedFor(fiInput)
        /\ (IsS1(fiInput.tokens) /\ ~LayoutGRDH(fiInput.tokens)
              /\ ~LayoutCoherence(fiInput.tokens)) => RaisedFor(fiInput)

C7_Witness ==
    /\ Parsed
    /\ fiInput.sep = Str_DoubleUnderscore
    /\ fiInput.tokens = <<Str_S1A, Str_IW, Str_SLC, Str_1SDV, Str_20180101T055812,
                          Str_ASC, Str_VV>>
    /\ RaisedFor(fiInput)

----------------------------------------------------------------------------
(* calculate_periodic_data *)

Str_InputDir == <<"i", "n", "/", "p", "a", "r", "c", "e", "l", "s", "/">>
Str_B03_10m == <<"B", "0", "3", "-", "1", "0", "m">>
Str_B04_10m == <<"B", "0", "4", "-", "1", "0", "m">>
Str_B08_10m == <<"B", "0", "8", "-", "1", "0", "m">>
Str_20180102T055812 == <<"2", "0", "1", "8", "0", "1", "0", "2", "T", "0", "5", "5", "8", "1", "2">>
Str_20180109T055812 == <<"2", "0", "1", "8", "0", "1", "0", "9", "T", "0", "5", "5", "8", "1", "2">>

EndsWith(str, suffix) ==
    Len(str) >= Len(suffix) /\ SubSeq(str, Len(str) - Len(suffix) + 1, Len(str)) = suffix

\* the values of conf.general['SENSORDATA_...']
SENSORDATA_S1_ASCDESC == "S1_ASCDESC"
SENSORDATA_S2gt95 == "S2gt95"
SENSORDATA_S1_COHERENCE == "S1_COHERENCE"

\* imagetype, bands and orbits of a sensordata_type (an orbit is <<>> for None, else
\* <<orbit>>); filterOrbit: the catalog is also filtered on orbit.  <<>>: unsupported.
SensorConfig(sensordata_type) ==
    CASE sensordata_type = SENSORDATA_S1_ASCDESC ->
           <<[imagetype |-> IMAGETYPE_S1_GRD, bands |-> <<Str_VV, Str_VH>>,
              orbits |-> << <<Str_ASC>>, <<Str_DESC>> >>, filterOrbit |-> TRUE]>>
      [] sensordata_type = SENSORDATA_S2gt95 ->
           <<[imagetype |-> IMAGETYPE_S2_L2A,
              bands |-> <<Str_B02_10m, Str_B03_10m, Str_B04_10m, Str_B08_10m>>,
              orbits |-> << <<>> >>, filterOrbit |-> FALSE]>>
      [] sensordata_type = SENSORDATA_S1_COHERENCE ->
           <<[imagetype |-> IMAGETYPE_S1_COHERENCE, bands |-> <<Str_VV, Str_VH>>,
              orbits |-> << <<Str_ASC>>, <<Str_DESC>> >>, filterOrbit |-> FALSE]>>
      [] OTHER -> <<>>

Date(y, m, d) == [year |-> y, month |-> m, day |-> d]
DaysInYear(y) == IF IsLeap(y) THEN 366 ELSE 365

\* date.fromordinal
RECURSIVE YearOfOrdinal(_, _)
YearOfOrdinal(n, y) ==
    IF n > DaysBeforeYear(y + 1) THEN YearOfOrdinal(n, y + 1)
    ELSE IF n <= DaysBeforeYear(y) THEN YearOfOrdinal(n, y - 1)
    ELSE y
RECURSIVE MonthOfYearDay(_, _, _)
MonthOfYearDay(y, yday, m) ==
    IF yday > DaysBeforeMonth(y, m) + DaysInMonth(y, m) THEN MonthOfYearDay(y, yday, m + 1)
    ELSE m
FromOrdinal(n) ==
    LET y == YearOfOrdinal(n, (n \div 366) + 1)
        yday == n - DaysBeforeYear(y)
        m == MonthOfYearDay(y, yday, 1)
    IN  Date(y, m, yday - DaysBeforeMonth(y, m))

\* datetime.strptime(str(year) + '_' + str(period_index) + '_1', '%Y_%W_%w'): the Monday
\* of week period_index of the year (the Monday before the year's first one for week 0)
PeriodDate(year, period_index) ==
    LET first_weekday == Weekday(Date(year, 1, 1))
        week_0_length == (7 - first_weekday) % 7
        julian == IF period_index = 0 THEN 1 - first_weekday
                  ELSE 1 + week_0_length + 7 * (period_index - 1)
        y == IF julian <= 0 THEN year - 1 ELSE year
        yday == IF julian <= 0 THEN julian + DaysInYear(year - 1) ELSE julian
    IN  FromOrdinal((yday - 1) + Ordinal(Date(y, 1, 1)))

\* the names the files of input_dir may have, in the order of os.listdir
ImageNames ==
    << BuildPath(Str_DoubleUnderscore,
                 <<Str_S1A, Str_IW, Str_GRDH, Str_1SDV, Str_20180101T055812, Str_ASC, Str_VV>>),
       BuildPath(Str_DoubleUnderscore,
                 <<Str_S1A, Str_IW, Str_GRDH, Str_1SDV, Str_20180102T055812, Str_DESC, Str_VH>>),
       BuildPath(Str_DoubleUnderscore,
                 <<Str_S1A, Str_IW, Str_GRDH, Str_1SDV, Str_20180109T055812, Str_ASC, Str_VV>>),
       BuildPath(Str_DoubleUnderscore,
                 <<Str_S2A, Str_MSIL2A, Str_20180102T055812, Str_B02_10m>>),
       BuildPath(Str_DoubleUnderscore,
                 <<Str_S1A, Str_S1B, Str_20180230T055812, Str_ASC, Str_VV>>) >>

\* os.listdir(input_dir) filtered on input_ext: the positions in ImageNames of the files
Listing(dir) ==
    SelectSeq([i \in DOMAIN ImageNames |-> i],
              LAMBDA i : dir[i] # <<>> /\ EndsWith(ImageNames[i], Str_sqlite))

FilePath(i) == Str_InputDir \o ImageNames[i]

\* get_file_info of every name a file of input_dir may have
ImageInfos == [i \in DOMAIN ImageNames |-> get_file_info(FilePath(i))]

\* file_info_list: what get_file_info gives for each listed file
FileInfos(dir) == [k \in DOMAIN Listing(dir) |-> ImageInfos[Listing(dir)[k]]]

\* the file at a path of the catalog
FileAt(dir, filepath) == dir[CHOOSE i \in DOMAIN ImageNames : FilePath(i) = filepath][1]

\* needed_inputfiles_df
NeededFiles(catalog, cfg, start_date, end_date) ==
    SelectSeq(catalog,
              LAMBDA f : /\ Ordinal(f.date) >= Ordinal(start_date)
                         /\ Ordinal(f.date) < Ordinal(end_date)
                         /\ f.imagetype = cfg.imagetype
                         /\ f.band \in Range(cfg.bands)
                         /\ cfg.filterOrbit => f.orbit \in Range(cfg.orbits))

\* period_files_df of a cell: the rows of needed_inputfiles_df of the period's week, of
\* the band and, if an orbit is given, of the orbit
PeriodFilesDf_AnyWeek(needed, period_index, band, orbit) ==
    SelectSeq(needed, LAMBDA f : /\ f.band = band
                                 /\ orbit # <<>> => f.orbit = orbit)
PeriodFilesDf(needed, period_index, band, orbit) ==
    SelectSeq(needed, LAMBDA f : /\ f.week = period_index
                                 /\ f.band = band
                                 /\ orbit # <<>> => f.orbit = orbit)

\* period_files_df of a cell, as the files themselves
PeriodFilesOf(dir, needed, period_index, band, orbit) ==
    LET sel == PeriodFilesDf(needed, period_index, band, orbit)
    IN  [k \in DOMAIN sel |-> FileAt(dir, sel[k].filepath)]

\* pd.concat([new, old], axis=1): the columns of new, then those of old; a row for every
\* entity of either, NaN where a table has no row for it
ConcatTables_Inner(new, old) ==
    [columns |-> new.columns \o old.columns,
     rows |-> [e \in (DOMAIN new.rows) \cap (DOMAIN old.rows) |->
                 [c \in Range(new.columns) \cup Range(old.columns) |->
                     IF c \in Range(new.columns) THEN new.rows[e][c] ELSE old.rows[e][c]]]]
ConcatTables_OldFirst(new, old) ==
    [columns |-> old.columns \o new.columns,
     rows |-> [e \in (DOMAIN new.rows) \cup (DOMAIN old.rows) |->
                 [c \in Range(new.columns) \cup Range(old.columns) |->
                     IF c \in Range(new.columns)
                     THEN (IF e \in DOMAIN new.rows THEN new.rows[e][c] ELSE NaN)
                     ELSE (IF e \in DOMAIN old.rows THEN old.rows[e][c] ELSE NaN)]]]
ConcatTables(new, old) ==
    [columns |-> new.columns \o old.columns,
     rows |-> [e \in (DOMAIN new.rows) \cup (DOMAIN old.rows) |->
                 [c \in Range(new.columns) \cup Range(old.columns) |->
                     IF c \in Range(new.columns)
                     THEN (IF e \in DOMAIN new.rows THEN new.rows[e][c] ELSE NaN)
                     ELSE (IF e \in DOMAIN old.rows THEN old.rows[e][c] ELSE NaN)]]]

\* [(band, orbit) for band in bands for orbit in orbits]
CellsOf(cfg) ==
    [k \in 1..(Len(cfg.bands) * Len(cfg.orbits)) |->
        [band |-> cfg.bands[((k - 1) \div Len(cfg.orbits)) + 1],
         orbit |-> cfg.orbits[((k - 1) % Len(cfg.orbits)) + 1]]]

\* period_data_df after the cells k.. of the period are merged into acc
RECURSIVE MergeCells(_, _, _, _, _, _, _)
MergeCells(dir, needed, cfg, period_index, period_date, k, acc) ==
    IF k > Len(CellsOf(cfg)) THEN acc
    ELSE
      LET cell == CellsOf(cfg)[k]
          band_df == CombineCell(
                         PeriodFilesOf(dir, needed, period_index, cell.band, cell.orbit),
                         <<period_date, cfg.imagetype, cell.orbit, cell.band>>)
          merged == IF band_df = <<>> THEN acc
                    ELSE IF acc = <<>> THEN band_df
                    ELSE <<ConcatTables(band_df[1], acc[1])>>
      IN  MergeCells(dir, needed, cfg, period_index, period_date, k + 1, merged)

\* period_data_df of a period: <<>> (None) or <<table>>
PeriodTable(dir, needed, cfg, period_index, period_date) ==
    MergeCells(dir, needed, cfg, period_index, period_date, 1, <<>>)

\* the first column of the table whose name ends with '_count'
FirstCountColumn(t) ==
    t.columns[CHOOSE i \in DOMAIN t.columns :
                 /\ t.columns[i][2] = "count"
                 /\ \A j \in 1..(i - 1) : t.columns[j][2] # "count"]

\* pixcount_df: that column, NaN filled with 0
PixcountOf(t) ==
    [e \in DOMAIN t.rows |->
        IF IsNaN(t.rows[e][FirstCountColumn(t)]) THEN R(0) ELSE t.rows[e][FirstCountColumn(t)]]

WithFile(files, key, t) ==
    [k \in (DOMAIN files) \cup {key} |-> IF k = key THEN t ELSE files[k]]
WithoutFile(files, key) == [k \in (DOMAIN files) \ {key} |-> files[k]]

\* the period's table and, when there is no pixcount file yet, the pixcount file are
\* written; nothing is written for a period without data
WritePeriod_PixcountEach(st, key, period_data_df) ==
    IF period_data_df = <<>> THEN st
    ELSE [st EXCEPT !.pf = WithFile(st.pf, key, period_data_df[1]),
                    !.written = @ \cup {key},
                    !.px = <<PixcountOf(period_data_df[1])>>,
                    !.pixWritten = TRUE]
WritePeriod_Placeholder(st, key, period_data_df) ==
    IF period_data_df = <<>>
    THEN [st EXCEPT !.pf = WithFile(st.pf, key, [columns |-> <<>>, rows |-> <<>>])]
    ELSE [st EXCEPT !.pf = WithFile(st.pf, key, period_data_df[1]),
                    !.written = @ \cup {key},
                    !.px = IF @ = <<>> THEN <<PixcountOf(period_data_df[1])>> ELSE @,
                    !.pixWritten = @ \/ st.px = <<>>]
WritePeriod(st, key, period_data_df) ==
    IF period_data_df = <<>> THEN st
    ELSE [st EXCEPT !.pf = WithFile(st.pf, key, period_data_df[1]),
                    !.written = @ \cup {key},
                    !.px = IF @ = <<>> THEN <<PixcountOf(period_data_df[1])>> ELSE @,
                    !.pixWritten = @ \/ st.px = <<>>]

\* an existing output file is removed, the period computed and written
ComputePeriod(dir, needed, cfg, period_index, period_date, key, st) ==
    WritePeriod([st EXCEPT !.pf = IF key \in DOMAIN @ THEN WithoutFile(@, key) ELSE @,
                           !.removed = IF key \in DOMAIN st.pf THEN @ \cup {key} ELSE @,
                           !.computed = @ \cup {key},
                           !.order = Append(@, [period_index |-> period_index, key |-> key])],
                key,
                PeriodTable(dir, needed, cfg, period_index, period_date))

\* one pass of the period loop; st is the destination directory and the log of the run
ProcessPeriod_NoExistsCheck(dir, needed, sensordata_type, cfg, year, force, period_index, st) ==
    ComputePeriod(dir, needed, cfg, period_index, PeriodDate(year, period_index),
                  <<PeriodDate(year, period_index), sensordata_type>>, st)
ProcessPeriod(dir, needed, sensordata_type, cfg, year, force, period_index, st) ==
    IF <<PeriodDate(year, period_index), sensordata_type>> \in DOMAIN st.pf /\ ~force
    THEN [st EXCEPT !.skipped = @ \cup {<<PeriodDate(year, period_index), sensordata_type>>},
                    !.order = Append(@, [period_index |-> period_index,
                                         key |-> <<PeriodDate(year, period_index),
                                                   sensordata_type>>])]
    ELSE ComputePeriod(dir, needed, cfg, period_index, PeriodDate(year, period_index),
                       <<PeriodDate(year, period_index), sensordata_type>>, st)

\* for period_index in range(start_week, end_week)
RECURSIVE ProcessPeriods_ToEndWeek(_, _, _, _, _, _, _, _, _)
ProcessPeriods_ToEndWeek(dir, needed, sensordata_type, cfg, year, force, period_index, end_week, st) ==
    IF period_index > end_week THEN st
    ELSE ProcessPeriods_ToEndWeek(dir, needed, sensordata_type, cfg, year, force,
                                  period_index + 1, end_week,
                                  ProcessPeriod(dir, needed, sensordata_type, cfg, year, force,
                                                period_index, st))
RECURSIVE ProcessPeriods(_, _, _, _, _, _, _, _, _)
ProcessPeriods(dir, needed, sensordata_type, cfg, year, force, period_index, end_week, st) ==
    IF period_index >= end_week THEN st
    ELSE ProcessPeriods(dir, needed, sensordata_type, cfg, year, force, period_index + 1,
                        end_week,
                        ProcessPeriod(dir, needed, sensordata_type, cfg, year, force,
                                      period_index, st))

\* for sensordata_type in sensordata_to_get.  An empty catalog is a DataFrame without
\* columns, so its .date raises; an unsupported sensordata_type raises.
RECURSIVE ProcessSensors(_, _, _, _, _, _, _, _)
ProcessSensors(dir, catalog, start_date, end_date, sensordata_to_get, force, i, st) ==
    IF i > Len(sensordata_to_get) THEN st
    ELSE
      LET cfg == SensorConfig(sensordata_to_get[i])
      IN  IF cfg = <<>> \/ catalog = <<>> THEN [st EXCEPT !.raised = TRUE]
          ELSE ProcessSensors(dir, catalog, start_date, end_date, sensordata_to_get, force,
                   i + 1,
                   ProcessPeriods(dir,
                                  NeededFiles(catalog, cfg[1], start_date, end_date),
                                  sensordata_to_get[i], cfg[1], start_date.year, force,
                                  WeekOfYear(start_date), WeekOfYear(end_date), st))

\* calculate_periodic_data: the destination directory after the call and what the call did
CalcPeriodic_SkipUnparseable(dir, pf, px, start_date, end_date, sensordata_to_get, force) ==
    LET st0 == [pf |-> pf, px |-> px, order |-> <<>>, skipped |-> {}, removed |-> {},
                computed |-> {}, written |-> {}, pixWritten |-> FALSE, raised |-> FALSE]
        infos == SelectSeq(FileInfos(dir), LAMBDA fi : fi.ok)
    IN  ProcessSensors(dir, [k \in DOMAIN infos |-> infos[k].info], start_date,
                       end_date, sensordata_to_get, force, 1, st0)
CalcPeriodic(dir, pf, px, start_date, end_date, sensordata_to_get, force) ==
    LET st0 == [pf |-> pf, px |-> px, order |-> <<>>, skipped |-> {}, removed |-> {},
                computed |-> {}, written |-> {}, pixWritten |-> FALSE, raised |-> FALSE]
        infos == FileInfos(dir)
    IN  IF \E k \in DOMAIN infos : ~infos[k].ok THEN [st0 EXCEPT !.raised = TRUE]
        ELSE ProcessSensors(dir, [k \in DOMAIN infos |-> infos[k].info], start_date,
                            end_date, sensordata_to_get, force, 1, st0)

----------------------------------------------------------------------------
(* Specification of the runs of calculate_periodic_data on a changing input directory *)

Table1 == TableFile([e \in {"p1"} |-> MkRow(R(1), R(3))])
Table2 == TableFile([e \in Entities |-> IF e = "p1" THEN MkRow(R(2), NaN) ELSE MkRow(NaN, R(2))])
Table3 == TableFile([e \in {"p2"} |-> MkRow(R(1), R(3))])

\* what each file of ImageNames may be: <<>> is no such file.  The last name, of a
\* coherence image of the 30th of February, is a file of UnparseableChoices only.
ImageChoices ==
    << {<<>>, <<ZeroByteFile>>, <<Table2>>},
       {<<>>, <<Table3>>},
       {<<>>, <<Table1>>},
       {<<>>, <<Table1>>},
       {<<>>} >>
UnparseableName == Len(ImageNames)
UnparseableChoices == {<<>>, <<Table1>>}

Windows ==
    {[start |-> Date(2018, 1, 1), end |-> Date(2018, 1, 15)],
     [start |-> Date(2018, 1, 3), end |-> Date(2018, 1, 10)],
     [start |-> Date(2019, 1, 1), end |-> Date(2019, 1, 16)]}
SensorLists == {<<SENSORDATA_S1_ASCDESC, SENSORDATA_S2gt95>>}

AnyImageChoice == UNION {ImageChoices[i] : i \in DOMAIN ImageNames}
ImageDirs ==
    {d \in [DOMAIN ImageNames -> AnyImageChoice] : \A i \in DOMAIN ImageNames : d[i] \in ImageChoices[i]}

IdleCell == cellFiles = <<>> /\ cellOut = <<>> /\ cphase = "idle"

InitPeriodic ==
    /\ IdleRescale
    /\ IdleBinning
    /\ imageDir \in ImageDirs
    /\ periodFiles = <<>>
    /\ pixcountFile = <<>>
    /\ lastRun = NoRun
    /\ IdleCell
    /\ fiInput = IdleInput /\ fiResult = <<>>
    /\ IdleCollect

\* one call of calculate_periodic_data
RunPeriodic ==
    \E force \in BOOLEAN, w \in Windows, sensors \in SensorLists :
        \E r \in {CalcPeriodic(imageDir, periodFiles, pixcountFile, w.start, w.end, sensors, force)} :
            /\ periodFiles' = r.pf
            /\ pixcountFile' = r.px
            /\ lastRun' = [ran |-> TRUE,
                           rerun |-> lastRun.ran /\ lastRun.window = w
                                       /\ lastRun.sensors = sensors /\ ~force,
                           force |-> force, window |-> w, sensors |-> sensors,
                           order |-> r.order, skipped |-> r.skipped, removed |-> r.removed,
                           computed |-> r.computed, written |-> r.written,
                           pixWritten |-> r.pixWritten, raised |-> r.raised]
            /\ UNCHANGED <<imageDir, combVars, parseVars, collectVars, rescaleVars, binVars>>

\* the environment adds, replaces or removes one per-image file
ChangeInput ==
    \E i \in DOMAIN ImageNames : \E c \in ImageChoices[i] :
        /\ c # imageDir[i]
        /\ imageDir' = [imageDir EXCEPT ![i] = c]
        /\ lastRun' = NoRun
        /\ UNCHANGED <<periodFiles, pixcountFile, combVars, parseVars, collectVars, rescaleVars, binVars>>

NextPeriodic == RunPeriodic \/ ChangeInput

SpecPeriodic == InitPeriodic /\ [][NextPeriodic]_vars

----------------------------------------------------------------------------
(* Properties of the re-runs of calculate_periodic_data *)

\* a step that is a call of calculate_periodic_data
PeriodicRunStep == imageDir' = imageDir /\ lastRun'.ran /\ runVars' # runVars

\* the period indexes and the output files of a run
RunWeeks(run) == WeekOfYear(run.window.start)..(WeekOfYear(run.window.end) - 1)
KeyOf(run, p, s) == <<PeriodDate(run.window.start.year, p), s>>

\* the table of period p and sensordata_type s computed from the files of dir
Recomputed(dir, run, p, s) ==
    PeriodTable(dir,
                NeededFiles([k \in DOMAIN FileInfos(dir) |-> FileInfos(dir)[k].info],
                            SensorConfig(s)[1], run.window.start, run.window.end),
                SensorConfig(s)[1], p, PeriodDate(run.window.start.year, p))

\* an existing output file without force: left untouched, the period not recomputed
LeftUntouched(run, key) ==
    /\ key \in DOMAIN periodFiles'
    /\ periodFiles'[key] = periodFiles[key]
    /\ key \in run.skipped
    /\ key \notin (run.removed \cup run.computed \cup run.written)

\* C9 as stated: in every call that completes, for every period of the run, an existing
\* output file is left untouched and not recomputed when force is False, and is deleted
\* and replaced by the table recomputed from the current inputs when force is True.
C9_RerunSemantics_AsClaimed ==
    [][PeriodicRunStep /\ ~lastRun'.raised =>
         \A p \in RunWeeks(lastRun') : \A s \in Range(lastRun'.sensors) :
            LET key == KeyOf(lastRun', p, s)
                t == Recomputed(imageDir, lastRun', p, s)
            IN  key \in DOMAIN periodFiles =>
                   IF ~lastRun'.force THEN LeftUntouched(lastRun', key)
                   ELSE /\ key \in lastRun'.removed
                        /\ key \in lastRun'.computed
                        /\ t # <<>>
                        /\ key \in DOMAIN periodFiles'
                        /\ periodFiles'[key] = t[1]]_vars

\* C9: in every call that completes, for every period of the run, an existing output
\* file is left untouched and not recomputed when force is False; when force is True it
\* is deleted and the period recomputed from the current inputs, and the recomputed
\* table is written in its place if some cell of the period has a contributing
\* non-empty file, otherwise the period is left without an output file.
C9_RerunSemantics ==
    [][PeriodicRunStep /\ ~lastRun'.raised =>
         \A p \in RunWeeks(lastRun') : \A s \in Range(lastRun'.sensors) :
            LET key == KeyOf(lastRun', p, s)
                t == Recomputed(imageDir, lastRun', p, s)
            IN  key \in DOMAIN periodFiles =>
                   IF ~lastRun'.force THEN LeftUntouched(lastRun', key)
                   ELSE /\ key \in lastRun'.removed
                        /\ key \in lastRun'.computed
                        /\ IF t = <<>>
                           THEN key \notin DOMAIN periodFiles' /\ key \notin lastRun'.written
                           ELSE /\ key \in DOMAIN periodFiles'
                                /\ periodFiles'[key] = t[1]
                                /\ key \in lastRun'.written]_vars

\* a forced run has replaced one existing period file and deleted another without
\* replacing it, and an unforced run has skipped an existing period file
C9_Witness ==
    /\ lastRun.ran /\ ~lastRun.raised
    /\ \/ /\ lastRun.force
          /\ lastRun.removed \cap lastRun.written # {}
          /\ lastRun.removed \ lastRun.written # {}
       \/ /\ ~lastRun.force
          /\ lastRun.skipped # {}
          /\ lastRun.written # {}

----------------------------------------------------------------------------
(* collect_and_prepare_timeseries_data *)

Str_s2 == <<"s", "2">>
Str_s1_grd == <<"s", "1", "-", "g", "r", "d">>
Str_s1coh == <<"s", "1", "c", "o", "h">>
Str_s1_coh == <<"s", "1", "-", "c", "o", "h">>
Str_s2_agri == <<"s", "2", "-", "a", "g", "r", "i">>
Str_S2_agri == <<"S", "2", "-", "a", "g", "r", "i">>
Str_s1_grd_sigma0_asc == <<"s", "1", "-", "g", "r", "d", "-", "s", "i", "g", "m", "a", "0", "-", "a", "s", "c">>
Str_s1_coh_weekly == <<"s", "1", "-", "c", "o", "h", "-", "w", "e", "e", "k", "l", "y">>

UpperChars == <<"A", "B", "C", "D", "E", "F", "G", "H", "I", "J", "K", "L", "M", "N", "O", "P", "Q", "R", "S", "T", "U", "V", "W", "X", "Y", "Z">>
LowerChars == <<"a", "b", "c", "d", "e", "f", "g", "h", "i", "j", "k", "l", "m", "n", "o", "p", "q", "r", "s", "t", "u", "v", "w", "x", "y", "z">>

\* str.lower
Lower(str) ==
    [i \in DOMAIN str |->
        IF \E k \in DOMAIN UpperChars : UpperChars[k] = str[i]
        THEN LowerChars[CHOOSE k \in DOMAIN UpperChars : UpperChars[k] = str[i]]
        ELSE str[i]]

\* ts_helper.get_fileinfo_timeseries_periods: the metadata that the name of a period
\* file encodes (image_profile, start_date, end_date, band and, optionally, time_reducer)
get_fileinfo_timeseries_periods(file) == file.fileinfo

\* sorted(timeseries_dir.glob('*' + data_ext)): the positions of the files
TsListing(dir) == SelectSeq([i \in DOMAIN dir |-> i], LAMBDA i : dir[i] # <<>>)

\* the checks that make the loop skip a file before it is read
FileSkipped(file, args) ==
    \/ file.pixcount
    \/ LET fileinfo == get_fileinfo_timeseries_periods(file)
           image_profile == Lower(fileinfo.image_profile)
       IN  \/ image_profile \notin DOMAIN args.images_to_use
           \/ Ordinal(fileinfo.start_date) < Ordinal(args.start_date)
           \/ Ordinal(fileinfo.end_date) >= Ordinal(args.end_date)
           \/ fileinfo.band \notin args.images_to_use[image_profile].bands
           \/ /\ args.images_to_use[image_profile].time_reducer # <<>>
              /\ \/ fileinfo.time_reducer = <<>>
                 \/ fileinfo.time_reducer # args.images_to_use[image_profile].time_reducer
           \/ file.empty

\* a column name is <<aggregation>> or <<prefix, aggregation>> (prefix + '_' + aggregation)
ColumnAsked(column, aggregations) ==
    \E k \in DOMAIN aggregations :
        \/ Len(column) = 2 /\ column[2] = aggregations[k]
        \/ column = <<aggregations[k]>>

\* columns: the columns read from the file
ColumnsToRead(file, aggregations) ==
    SelectSeq(file.columns, LAMBDA c : ColumnAsked(c, aggregations))

\* columns_to_rename applied to a column
RenamedColumn(column, aggregations, fileinfo, image_profile) ==
    IF \E k \in DOMAIN aggregations : column = <<aggregations[k]>>
    THEN <<image_profile, fileinfo.start_date, fileinfo.band, column[1]>>
    ELSE column

\* not (nb_data_read * 100 / nb_input_parcels < min_parcels_with_data_pct)
EnoughDataRead(file, nb_input_parcels, min_pct) ==
    ~(Cardinality(DOMAIN file.rows) * 100 < min_pct * nb_input_parcels)

\* data_read_df[column].isnull().sum()
NullCount(file, column) == Cardinality({e \in DOMAIN file.rows : IsNaN(file.rows[e][column])})

\* (1 - nulls / nb_input_parcels) * 100 < min_parcels_with_data_pct
ColumnDropped(file, column, nb_input_parcels, min_pct) ==
    (nb_input_parcels - NullCount(file, column)) * 100 < min_pct * nb_input_parcels

ClipUpper1(v) == IF ~IsNaN(v) /\ RLess(R(1), v) THEN R(1) ELSE v
Scale_Times(v, k) == IF IsNaN(v) THEN v ELSE Norm(<<v[1] * k, v[2]>>)
Scale(v, k) == IF IsNaN(v) THEN v ELSE RDivInt(v, k)
S2_DIVISOR == 10000
S1COH_DIVISOR == 300

\* the rescaling of a value of a file of image_profile
Rescale_ClipAll(image_profile, v) ==
    ClipUpper1(IF StartsWith(image_profile, Str_s2) THEN Scale(v, S2_DIVISOR)
               ELSE IF StartsWith(image_profile, Str_s1coh) \/ StartsWith(image_profile, Str_s1_coh)
               THEN Scale(v, S1COH_DIVISOR)
               ELSE v)
Rescale(image_profile, v) ==
    LET s2 == IF StartsWith(image_profile, Str_s2) THEN ClipUpper1(Scale(v, S2_DIVISOR)) ELSE v
        grd == IF StartsWith(image_profile, Str_s1_grd) THEN ClipUpper1(s2) ELSE s2
    IN  IF StartsWith(image_profile, Str_s1coh) \/ StartsWith(image_profile, Str_s1_coh)
        THEN Scale(grd, S1COH_DIVISOR)
        ELSE grd

\* one pass of the loop over the files: acc is result_df and the log of the call; the
\* left join raises when a column of the file is already a column of result_df
CollectFile(acc, i, file, args, parcels) ==
    IF FileSkipped(file, args) THEN [acc EXCEPT !.skipped = @ \cup {i}]
    ELSE IF ~EnoughDataRead(file, Cardinality(parcels), args.min_pct)
    THEN [acc EXCEPT !.rejected = @ \cup {i}]
    ELSE
      LET fileinfo == get_fileinfo_timeseries_periods(file)
          image_profile == Lower(fileinfo.image_profile)
          columns == ColumnsToRead(file, args.aggregations)
          retained == SelectSeq(columns,
                          LAMBDA c : ~ColumnDropped(file, c, Cardinality(parcels), args.min_pct))
          renamed == [k \in DOMAIN retained |->
                         RenamedColumn(retained[k], args.aggregations, fileinfo, image_profile)]
          log == [acc EXCEPT !.checked = @ \cup {<<i, columns[k]>> : k \in DOMAIN columns},
                             !.dropped = @ \cup {<<i, columns[k]>> :
                                                   k \in {j \in DOMAIN columns :
                                                            columns[j] \notin Range(retained)}}]
      IN  IF \E k \in DOMAIN renamed : renamed[k] \in Range(acc.columns)
          THEN [log EXCEPT !.raised = TRUE]
          ELSE [log EXCEPT
                  !.columns = @ \o renamed,
                  !.rows = [e \in parcels |->
                              [c \in Range(acc.columns) \cup Range(renamed) |->
                                 IF c \in Range(acc.columns) THEN acc.rows[e][c]
                                 ELSE IF e \in DOMAIN file.rows
                                 THEN Rescale(image_profile,
                                          file.rows[e][retained[CHOOSE k \in DOMAIN retained :
                                                                   renamed[k] = c]])
                                 ELSE NaN]]]

\* for curr_path in sorted(ts_data_paths)
RECURSIVE CollectFiles(_, _, _, _, _)
CollectFiles(dir, args, parcels, k, acc) ==
    IF k > Len(TsListing(dir)) \/ acc.raised THEN acc
    ELSE CollectFiles(dir, args, parcels, k + 1,
                      CollectFile(acc, TsListing(dir)[k], dir[TsListing(dir)[k]][1], args,
                                  parcels))

\* result_df.isnull().sum(axis=1) of a row
NullColumns(result, e) == Cardinality({c \in Range(result.columns) : IsNaN(result.rows[e][c])})

\* int(0.6 * len(result_df.columns))
MaxNumberNull_Half(result) == (5 * Len(result.columns)) \div 10
MaxNumberNull(result) == (6 * Len(result.columns)) \div 10

ManyNullRows(result) == {e \in DOMAIN result.rows : NullColumns(result, e) > MaxNumberNull(result)}

RestrictRows(result, keep) == [result EXCEPT !.rows = [e \in keep |-> result.rows[e]]]

\* result_df.fillna(0)
FillNa0(result) ==
    [result EXCEPT !.rows = [e \in DOMAIN result.rows |->
                               [c \in Range(result.columns) |->
                                  IF IsNaN(result.rows[e][c]) THEN R(0) ELSE result.rows[e][c]]]]

\* what happens after the loop over the files
FinishCollect_FillFirst(acc, feature, manyNull) ==
    LET result == [columns |-> acc.columns, rows |-> acc.rows]
        filled == FillNa0(result)
        out == [feature |-> feature, manyNull |-> manyNull, returned |-> FALSE,
                raised |-> acc.raised, skipped |-> acc.skipped, rejected |-> acc.rejected,
                checked |-> acc.checked, dropped |-> acc.dropped,
                joined |-> IF acc.raised THEN <<>> ELSE <<result>>, written |-> FALSE,
                manyNullWritten |-> FALSE]
    IN  IF acc.raised THEN out
        ELSE IF Len(result.columns) = 0 THEN [out EXCEPT !.raised = TRUE]
        ELSE [out EXCEPT
                !.manyNull = IF ManyNullRows(filled) # {}
                             THEN <<RestrictRows(filled, ManyNullRows(filled))>> ELSE @,
                !.manyNullWritten = ManyNullRows(filled) # {},
                !.feature = <<RestrictRows(filled,
                                           (DOMAIN filled.rows) \ ManyNullRows(filled))>>,
                !.written = TRUE]
FinishCollect_NoColumnCheck(acc, feature, manyNull) ==
    LET result == [columns |-> acc.columns, rows |-> acc.rows]
        out == [feature |-> feature, manyNull |-> manyNull, returned |-> FALSE,
                raised |-> acc.raised, skipped |-> acc.skipped, rejected |-> acc.rejected,
                checked |-> acc.checked, dropped |-> acc.dropped,
                joined |-> IF acc.raised THEN <<>> ELSE <<result>>, written |-> FALSE,
                manyNullWritten |-> FALSE]
    IN  IF acc.raised THEN out
        ELSE [out EXCEPT
                !.manyNull = IF ManyNullRows(result) # {}
                             THEN <<RestrictRows(result, ManyNullRows(result))>> ELSE @,
                !.manyNullWritten = ManyNullRows(result) # {},
                !.feature = <<FillNa0(RestrictRows(result,
                                                   (DOMAIN result.rows) \ ManyNullRows(result)))>>,
                !.written = TRUE]
FinishCollect(acc, feature, manyNull) ==
    LET result == [columns |-> acc.columns, rows |-> acc.rows]
        out == [feature |-> feature, manyNull |-> manyNull, returned |-> FALSE,
                raised |-> acc.raised, skipped |-> acc.skipped, rejected |-> acc.rejected,
                checked |-> acc.checked, dropped |-> acc.dropped,
                joined |-> IF acc.raised THEN <<>> ELSE <<result>>, written |-> FALSE,
                manyNullWritten |-> FALSE]
    IN  IF acc.raised THEN out
        ELSE IF Len(result.columns) = 0 THEN [out EXCEPT !.raised = TRUE]
        ELSE [out EXCEPT
                !.manyNull = IF ManyNullRows(result) # {}
                             THEN <<RestrictRows(result, ManyNullRows(result))>> ELSE @,
                !.manyNullWritten = ManyNullRows(result) # {},
                !.feature = <<FillNa0(RestrictRows(result,
                                                   (DOMAIN result.rows) \ ManyNullRows(result)))>>,
                !.written = TRUE]

\* collect_and_prepare_timeseries_data: the output files after the call and what it did;
\* the call raises before the loop when no file matches the data extension
CollectAndPrepare_AlwaysRebuild(dir, feature, manyNull, parcels, args, force) ==
    FinishCollect(CollectFiles(dir, args, parcels, 1,
                               [columns |-> <<>>, rows |-> [e \in parcels |-> <<>>],
                                raised |-> TsListing(dir) = <<>>, skipped |-> {},
                                rejected |-> {}, checked |-> {}, dropped |-> {}]),
                  feature, manyNull)
CollectAndPrepare(dir, feature, manyNull, parcels, args, force) ==
    IF ~force /\ feature # <<>>
    THEN [feature |-> feature, manyNull |-> manyNull, returned |-> TRUE, raised |-> FALSE,
          skipped |-> {}, rejected |-> {}, checked |-> {}, dropped |-> {}, joined |-> <<>>,
          written |-> FALSE, manyNullWritten |-> FALSE]
    ELSE FinishCollect(CollectFiles(dir, args, parcels, 1,
                                    [columns |-> <<>>, rows |-> [e \in parcels |-> <<>>],
                                     raised |-> TsListing(dir) = <<>>, skipped |-> {},
                                     rejected |-> {}, checked |-> {}, dropped |-> {}]),
                       feature, manyNull)

----------------------------------------------------------------------------
(* Specification of the runs of collect_and_prepare_timeseries_data *)

\* the parcels of input_parcel_path
InputParcels == Entities

TsInfo(image_profile, start_date, end_date, band, time_reducer) ==
    [image_profile |-> image_profile, start_date |-> start_date, end_date |-> end_date,
     band |-> band, time_reducer |-> time_reducer]
TsTable(fileinfo, columns, rows) ==
    [pixcount |-> FALSE, fileinfo |-> fileinfo, empty |-> FALSE, columns |-> columns,
     rows |-> rows]
TsEmpty(fileinfo) ==
    [pixcount |-> FALSE, fileinfo |-> fileinfo, empty |-> TRUE, columns |-> <<>>, rows |-> <<>>]
TsPixcount ==
    [pixcount |-> TRUE, fileinfo |-> <<>>, empty |-> FALSE, columns |-> << <<"pixcount">> >>,
     rows |-> [e \in Entities |-> [c \in {<<"pixcount">>} |-> R(1)]]]

TsRow(mean, count) == (<<"mean">> :> mean) @@ (<<"count">> :> count) @@ (<<"std">> :> R(0))

InfoS2 == TsInfo(Str_S2_agri, Date(2018, 1, 1), Date(2018, 1, 8), Str_B02_10m, <<>>)
InfoS1 == TsInfo(Str_s1_grd_sigma0_asc, Date(2018, 1, 8), Date(2018, 1, 15), Str_VV, <<"mean">>)

\* both parcels, the mean of p2 missing
TsS2Both ==
    TsTable(InfoS2, << <<"mean">>, <<"std">>, <<"count">> >>,
            [e \in Entities |-> IF e = "p1" THEN TsRow(R(5000), R(20000)) ELSE TsRow(NaN, R(3))])
\* one parcel, its mean missing
TsS2One ==
    TsTable(InfoS2, << <<"mean">>, <<"std">>, <<"count">> >>, [e \in {"p1"} |-> TsRow(NaN, R(1))])
\* one of the parcels and a parcel that is not one of input_parcel_path
TsS1 ==
    TsTable(InfoS1, << <<Str_VV, "mean">> >>,
            [e \in {"p1", "p3"} |-> [c \in {<<Str_VV, "mean">>} |-> IF e = "p1" THEN <<3, 2>> ELSE <<1, 2>>]])

InfoS1Coh == TsInfo(Str_s1_coh_weekly, Date(2018, 1, 8), Date(2018, 1, 15), Str_VV, <<>>)
InfoS2Week2 == TsInfo(Str_s2_agri, Date(2018, 1, 8), Date(2018, 1, 15), Str_B02_10m, <<>>)
InfoS2Max == TsInfo(Str_s2_agri, Date(2018, 1, 1), Date(2018, 1, 8), Str_B02_10m, <<"max">>)

\* both parcels, a negative value and a value of 1
TsS1Negative ==
    TsTable(InfoS1, << <<Str_VV, "mean">> >>,
            [e \in Entities |-> [c \in {<<Str_VV, "mean">>} |-> IF e = "p1" THEN <<-1, 2>> ELSE R(1)]])
\* coherence, both parcels, a value above 300
TsS1Coh ==
    TsTable(InfoS1Coh, << <<Str_VV, "mean">> >>,
            [e \in Entities |-> [c \in {<<Str_VV, "mean">>} |-> IF e = "p1" THEN R(150) ELSE R(600)]])
\* the second week of s2: one parcel
TsS2Week2One ==
    TsTable(InfoS2Week2, << <<"mean">>, <<"std">>, <<"count">> >>,
            [e \in {"p1"} |-> TsRow(R(2500), R(4))])
\* the second week of s2: both parcels, the mean of p2 missing
TsS2Week2Both ==
    TsTable(InfoS2Week2, << <<"mean">>, <<"std">>, <<"count">> >>,
            [e \in Entities |-> IF e = "p1" THEN TsRow(R(2500), R(4)) ELSE TsRow(NaN, R(5))])
\* the first week of s2 once more, of another time reducer
TsS2Max ==
    TsTable(InfoS2Max, << <<"mean">>, <<"std">>, <<"count">> >>,
            [e \in Entities |-> TsRow(R(7500), R(6))])

\* what each file of timeseries_dir may be, in the order of their paths: <<>> is no such file
TsChoices ==
    << {<<>>, <<TsPixcount>>},
       {<<>>, <<TsEmpty(InfoS2)>>, <<TsS2Both>>, <<TsS2One>>},
       {<<>>, <<TsS1>>} >>
AnyTsChoice == UNION {TsChoices[i] : i \in DOMAIN TsChoices}
TsDirs == {d \in [DOMAIN TsChoices -> AnyTsChoice] : \A i \in DOMAIN TsChoices : d[i] \in TsChoices[i]}

ImagesToUse ==
    (Str_s2_agri :> [bands |-> {Str_B02_10m}, time_reducer |-> <<>>])
    @@ (Str_s1_grd_sigma0_asc :> [bands |-> {Str_VV, Str_VH}, time_reducer |-> <<"mean">>])
    @@ (Str_s1_coh_weekly :> [bands |-> {Str_VV}, time_reducer |-> <<>>])

\* min_parcels_with_data_pct of the configurations
MinPcts == {50, 100}

CollectArgs ==
    [start_date : {Date(2018, 1, 1)}, end_date : {Date(2018, 1, 15), Date(2018, 1, 22)},
     images_to_use : {ImagesToUse}, aggregations : {<<"mean", "count">>},
     min_pct : MinPcts]

InitCollect ==
    /\ IdleRescale
    /\ IdleBinning
    /\ tsDir \in TsDirs
    /\ featureFile = <<>>
    /\ manyNullFile = <<>>
    /\ lastCollect = NoCollect
    /\ IdleCell
    /\ fiInput = IdleInput /\ fiResult = <<>>
    /\ IdleRun

\* one call of collect_and_prepare_timeseries_data
RunCollect ==
    \E force \in BOOLEAN, args \in CollectArgs :
        \E r \in {CollectAndPrepare(tsDir, featureFile, manyNullFile, InputParcels, args, force)} :
            /\ featureFile' = r.feature
            /\ manyNullFile' = r.manyNull
            /\ lastCollect' = [ran |-> TRUE,
                               rerun |-> lastCollect.ran /\ lastCollect.args = args /\ ~force,
                               force |-> force, args |-> args, returned |-> r.returned,
                               raised |-> r.raised, skipped |-> r.skipped,
                               rejected |-> r.rejected, checked |-> r.checked,
                               dropped |-> r.dropped, joined |-> r.joined,
                               written |-> r.written,
                               manyNullWritten |-> r.manyNullWritten]
            /\ UNCHANGED <<tsDir, combVars, parseVars, runVars, rescaleVars, binVars>>

\* the environment adds, replaces or removes one file of timeseries_dir
ChangeTimeseries ==
    \E i \in DOMAIN TsChoices : \E c \in TsChoices[i] :
        /\ c # tsDir[i]
        /\ tsDir' = [tsDir EXCEPT ![i] = c]
        /\ lastCollect' = NoCollect
        /\ UNCHANGED <<featureFile, manyNullFile, combVars, parseVars, runVars, rescaleVars, binVars>>

NextCollect == RunCollect \/ ChangeTimeseries

SpecCollect == InitCollect /\ [][NextCollect]_vars

----------------------------------------------------------------------------
(* Specification of the runs of collect_and_prepare_timeseries_data on directories
   of up to four period files, which do not change *)

TsChoicesWide ==
    << {<<>>, <<TsPixcount>>},
       {<<>>, <<TsEmpty(InfoS2)>>, <<TsS2Both>>, <<TsS2One>>},
       {<<>>, <<TsS1>>, <<TsS1Negative>>, <<TsS1Coh>>},
       {<<>>, <<TsS2Week2One>>, <<TsS2Week2Both>>, <<TsS2Max>>} >>
AnyTsChoiceWide == UNION {TsChoicesWide[i] : i \in DOMAIN TsChoicesWide}
TsDirsWide ==
    {d \in [DOMAIN TsChoicesWide -> AnyTsChoiceWide] :
        \A i \in DOMAIN TsChoicesWide : d[i] \in TsChoicesWide[i]}

InitCollectWide ==
    /\ IdleRescale
    /\ IdleBinning
    /\ tsDir \in TsDirsWide
    /\ featureFile = <<>>
    /\ manyNullFile = <<>>
    /\ lastCollect = NoCollect
    /\ IdleCell
    /\ fiInput = IdleInput /\ fiResult = <<>>
    /\ IdleRun

NextCollectWide == RunCollect

SpecCollectWide == InitCollectWide /\ [][NextCollectWide]_vars

----------------------------------------------------------------------------
(* Specification of the pipeline: both functions run, again and again, on inputs that
   do not change *)

InitPipeline ==
    /\ IdleRescale
    /\ IdleBinning
    /\ imageDir \in {d \in ImageDirs : d[2] = <<>> /\ d[4] = <<>>}
    /\ periodFiles = <<>>
    /\ pixcountFile = <<>>
    /\ lastRun = NoRun
    /\ tsDir \in {d \in TsDirs : d[1] # <<>> /\ d[2] \in {<<>>, <<TsS2Both>>}}
    /\ featureFile = <<>>
    /\ manyNullFile = <<>>
    /\ lastCollect = NoCollect
    /\ IdleCell
    /\ fiInput = IdleInput /\ fiResult = <<>>

NextPipeline == RunPeriodic \/ RunCollect

SpecPipeline == InitPipeline /\ [][NextPipeline]_vars

----------------------------------------------------------------------------
(* Properties of the pipeline and of collect_and_prepare_timeseries_data *)

\* C8: when calculate_periodic_data, respectively collect_and_prepare_timeseries_data,
\* is run again with the same arguments and force=False on unchanged inputs, every
\* output of the run before (the period tables, the pixel-count file, the feature
\* table and its side file) keeps its content, and the run writes or deletes no file.
C8_Idempotent ==
    [][/\ lastRun'.rerun =>
            /\ periodFiles' = periodFiles
            /\ pixcountFile' = pixcountFile
            /\ lastRun'.written = {} /\ lastRun'.removed = {} /\ ~lastRun'.pixWritten
       /\ lastCollect'.rerun =>
            /\ featureFile' = featureFile
            /\ manyNullFile' = manyNullFile
            /\ ~lastCollect'.written /\ ~lastCollect'.manyNullWritten]_vars

\* both functions have been run a second time on outputs that exist: period files and
\* the pixel-count file were there and skipped, the feature table was there
C8_Witness ==
    /\ lastRun.rerun /\ lastRun.skipped # {} /\ lastRun.computed # {}
    /\ periodFiles # <<>> /\ pixcountFile # <<>>
    /\ lastCollect.rerun /\ lastCollect.returned
    /\ featureFile # <<>>

\* the parcels of input_parcel_path that have a value in a column of a file
ParcelsWithValue(file, column) ==
    {e \in InputParcels : e \in DOMAIN file.rows /\ ~IsNaN(file.rows[e][column])}

\* C10 as stated: a column of an accepted file is retained if and only if the number of
\* target parcels with a non-missing value in it, as a percentage of all target
\* parcels, is at least min_parcels_with_data_pct.
C10_ColumnCoverage_AsClaimed ==
    lastCollect.ran =>
        \A ic \in lastCollect.checked :
            (ic \notin lastCollect.dropped)
              <=> (Cardinality(ParcelsWithValue(tsDir[ic[1]][1], ic[2])) * 100
                     >= lastCollect.args.min_pct * Cardinality(InputParcels))

----------------------------------------------------------------------------
(* Properties of the table that collect_and_prepare_timeseries_data writes *)

\* C11: the rows of the feature table a run writes are exactly the input parcels whose
\* number of null columns, before the zero fill, is at most 60% of the number of
\* feature columns (exactly 60% is retained); every parcel above 60% is absent from it
\* and present in the rows_many_null file; no other entity is a row of either.
C11_NullRowPruning ==
    lastCollect.written =>
        LET result == lastCollect.joined[1]
            above == {e \in InputParcels :
                        NullColumns(result, e) * 10 > 6 * Len(result.columns)}
        IN  /\ DOMAIN result.rows = InputParcels
            /\ DOMAIN featureFile[1].rows = InputParcels \ above
            /\ above # {} => /\ lastCollect.manyNullWritten
                             /\ manyNullFile # <<>>
                             /\ DOMAIN manyNullFile[1].rows = above
            /\ above = {} => ~lastCollect.manyNullWritten

\* a run wrote a table of five columns and kept a parcel with three null columns,
\* although a file held a row of an entity that is not an input parcel
C11_Witness ==
    /\ lastCollect.written
    /\ Len(lastCollect.joined[1].columns) = 5
    /\ \E e \in DOMAIN featureFile[1].rows : NullColumns(lastCollect.joined[1], e) = 3
    /\ \E i \in DOMAIN tsDir :
          /\ tsDir[i] # <<>>
          /\ i \notin lastCollect.skipped
          /\ ~(DOMAIN tsDir[i][1].rows \subseteq InputParcels)

\* the name under which column c of the file at position i is joined
JoinedName(i, c) ==
    RenamedColumn(c, lastCollect.args.aggregations,
                  get_fileinfo_timeseries_periods(tsDir[i][1]),
                  Lower(get_fileinfo_timeseries_periods(tsDir[i][1]).image_profile))

\* the value that the file at position i holds for parcel e in column c: NaN when the
\* file has no row for e
RawValue(i, c, e) ==
    IF e \in DOMAIN tsDir[i][1].rows THEN tsDir[i][1].rows[e][c] ELSE NaN

\* C12: the feature table a run writes has no missing cell: a cell is the joined value,
\* or 0 where the joined value is missing; the fill comes last: the files are rejected
\* and the columns dropped by the counts of the rows and nulls of the files as they
\* are, a cell that a file does not give is missing in the joined table, the rows are
\* pruned by the nulls of the joined table, and the rows_many_null file holds them
\* unfilled.
C12_ZeroFillLast ==
    lastCollect.written =>
        LET result == lastCollect.joined[1]
            n == Cardinality(InputParcels)
            min_pct == lastCollect.args.min_pct
        IN  /\ featureFile[1].columns = result.columns
            /\ \A e \in DOMAIN featureFile[1].rows : \A c \in Range(result.columns) :
                  /\ ~IsNaN(featureFile[1].rows[e][c])
                  /\ featureFile[1].rows[e][c] =
                        IF IsNaN(result.rows[e][c]) THEN R(0) ELSE result.rows[e][c]
            /\ \A i \in lastCollect.rejected :
                  Cardinality(DOMAIN tsDir[i][1].rows) * 100 < min_pct * n
            /\ \A ic \in lastCollect.checked :
                  /\ Cardinality(DOMAIN tsDir[ic[1]][1].rows) * 100 >= min_pct * n
                  /\ (ic \in lastCollect.dropped) <=>
                        (n - Cardinality({e \in DOMAIN tsDir[ic[1]][1].rows :
                                             IsNaN(tsDir[ic[1]][1].rows[e][ic[2]])})) * 100
                           < min_pct * n
            /\ \A ic \in lastCollect.checked \ lastCollect.dropped : \A e \in InputParcels :
                  IsNaN(RawValue(ic[1], ic[2], e))
                     <=> IsNaN(result.rows[e][JoinedName(ic[1], ic[2])])
            /\ \A e \in InputParcels :
                  (e \in DOMAIN featureFile[1].rows)
                     <=> NullColumns(result, e) <= (6 * Len(result.columns)) \div 10
            /\ lastCollect.manyNullWritten =>
                  \A e \in DOMAIN manyNullFile[1].rows :
                     manyNullFile[1].rows[e] = result.rows[e]

\* a run rejected a file, dropped a column, pruned no row and wrote a table with a cell
\* filled with 0
C12_Witness ==
    /\ lastCollect.written
    /\ lastCollect.rejected # {}
    /\ lastCollect.dropped # {}
    /\ \E e \in DOMAIN featureFile[1].rows : \E c \in Range(featureFile[1].columns) :
          IsNaN(lastCollect.joined[1].rows[e][c]) /\ featureFile[1].rows[e][c] = R(0)

\* the smaller of two values
RMin(x, y) == IF RLeq(x, y) THEN x ELSE y

\* the profile, in lower case, of the file at position i
ProfileOf(i) == Lower(get_fileinfo_timeseries_periods(tsDir[i][1]).image_profile)

\* C13: every value of every retained column of a file is joined rescaled once by the
\* policy of the file's profile: min(v/10000, 1) for a profile starting with 's2',
\* min(v, 1) for one starting with 's1-grd' (values at or below 1, negative ones
\* included, unchanged), v/300 without clipping for one starting with 's1coh' or
\* 's1-coh'.
C13_Rescaling ==
    lastCollect.joined # <<>> =>
        \A ic \in lastCollect.checked \ lastCollect.dropped : \A e \in InputParcels :
            LET v == RawValue(ic[1], ic[2], e)
                joined == lastCollect.joined[1].rows[e][JoinedName(ic[1], ic[2])]
            IN  ~IsNaN(v) =>
                  /\ StartsWith(ProfileOf(ic[1]), Str_s2) =>
                        joined = RMin(Norm(<<v[1], v[2] * 10000>>), R(1))
                  /\ StartsWith(ProfileOf(ic[1]), Str_s1_grd) =>
                        /\ joined = RMin(v, R(1))
                        /\ RLeq(v, R(1)) => joined = v
                  /\ (StartsWith(ProfileOf(ic[1]), Str_s1coh)
                        \/ StartsWith(ProfileOf(ic[1]), Str_s1_coh)) =>
                        joined = Norm(<<v[1], v[2] * 300>>)

\* a run joined an s2 file with a value of 5000 and one of 20000, and an s1-grd file
\* with a negative value
C13_Witness ==
    /\ lastCollect.joined # <<>>
    /\ \E ic \in lastCollect.checked \ lastCollect.dropped : \E e \in InputParcels :
          /\ StartsWith(ProfileOf(ic[1]), Str_s2)
          /\ RawValue(ic[1], ic[2], e) = R(5000)
          /\ lastCollect.joined[1].rows[e][JoinedName(ic[1], ic[2])] = <<1, 2>>
    /\ \E ic \in lastCollect.checked \ lastCollect.dropped : \E e \in InputParcels :
          /\ StartsWith(ProfileOf(ic[1]), Str_s2)
          /\ RawValue(ic[1], ic[2], e) = R(20000)
          /\ lastCollect.joined[1].rows[e][JoinedName(ic[1], ic[2])] = R(1)
    /\ \E ic \in lastCollect.checked \ lastCollect.dropped : \E e \in InputParcels :
          /\ StartsWith(ProfileOf(ic[1]), Str_s1_grd)
          /\ RLess(RawValue(ic[1], ic[2], e), R(0))

----------------------------------------------------------------------------
(* Specification of the rescaling of one value *)

RescaleProfiles ==
    {Str_s2, Str_s2_agri, Str_s1_grd, Str_s1_grd_sigma0_asc, Str_s1coh, Str_s1_coh_weekly}
RescaleValues ==
    {NaN, R(0), <<1, 10000>>, <<1, 300>>, <<1, 2>>, R(1), <<3, 2>>, R(300), R(10000),
     R(20000), <<-1, 2>>}

InitRescale ==
    /\ rsInput \in [image_profile : RescaleProfiles, value : RescaleValues]
    /\ rsOutput = <<>>
    /\ IdleCell
    /\ fiInput = IdleInput /\ fiResult = <<>>
    /\ IdleRun
    /\ IdleCollect
    /\ IdleBinning

\* the rescaling steps of the loop over the files, for one value
RescaleStep ==
    /\ rsInput # <<>>
    /\ rsOutput = <<>>
    /\ rsOutput' = <<Rescale(rsInput.image_profile, rsInput.value)>>
    /\ UNCHANGED <<rsInput, combVars, parseVars, runVars, collectVars, binVars>>

NextRescale == RescaleStep

SpecRescale == InitRescale /\ [][NextRescale]_vars

\* C14: each of the three policies (s2, s1-grd, s1 coherence) turns a value of [0, 1]
\* into a value of [0, 1].
C14_UnitRangeKept ==
    (/\ rsOutput # <<>>
     /\ ~IsNaN(rsInput.value)
     /\ RLeq(R(0), rsInput.value) /\ RLeq(rsInput.value, R(1)))
        => /\ ~IsNaN(rsOutput[1])
           /\ RLeq(R(0), rsOutput[1]) /\ RLeq(rsOutput[1], R(1))

\* a value of 1 of a coherence profile has been rescaled
C14_Witness ==
    /\ rsOutput # <<>>
    /\ rsInput.value = R(1)
    /\ StartsWith(rsInput.image_profile, Str_s1_coh)
    /\ rsOutput[1] = <<1, 300>>

----------------------------------------------------------------------------
(* Properties of the files that calculate_periodic_data writes *)

\* the first pass, in the order of the run, that wrote a period table
FirstWritten(run) ==
    run.order[CHOOSE i \in DOMAIN run.order :
                 /\ run.order[i].key \in run.written
                 /\ \A j \in 1..(i - 1) : run.order[j].key \notin run.written].key

\* C15 as stated: after a run in which periods produce data, each of those periods has
\* its own pixel-count output, whose values are that period's own first '_count'
\* column with the missing values filled with 0.
C15_PixcountPerPeriod_AsClaimed ==
    (lastRun.ran /\ ~lastRun.raised) =>
        \A key \in lastRun.written :
            /\ pixcountFile # <<>>
            /\ pixcountFile[1] = PixcountOf(periodFiles[key])

\* C15: there is one pixel-count file for all periods and runs.  A run that writes a
\* period table when there is no pixel-count file writes the file once, in the pass of
\* the first period that produces data, from that period's first '_count' column with
\* the missing values filled with 0; no other pass writes a pixel-count output, and a
\* run that finds the file leaves it as it is.
C15_PixcountOnce ==
    [][PeriodicRunStep =>
         IF pixcountFile = <<>> /\ lastRun'.written # {}
         THEN /\ lastRun'.pixWritten
              /\ pixcountFile' = <<PixcountOf(periodFiles'[FirstWritten(lastRun')])>>
         ELSE /\ ~lastRun'.pixWritten
              /\ pixcountFile' = pixcountFile]_vars

\* a run wrote the tables of several periods and the pixel-count file, and the first
\* '_count' column of one of these tables is not what the pixel-count file holds
C15_Witness ==
    /\ lastRun.ran /\ ~lastRun.raised
    /\ lastRun.pixWritten
    /\ Cardinality(lastRun.written) >= 2
    /\ \E key \in lastRun.written : PixcountOf(periodFiles[key]) # pixcountFile[1]
    /\ pixcountFile[1] = PixcountOf(periodFiles[FirstWritten(lastRun)])

----------------------------------------------------------------------------
(* Properties of the calls of collect_and_prepare_timeseries_data *)

\* a step that is a call of collect_and_prepare_timeseries_data
CollectRunStep == tsDir' = tsDir /\ lastCollect'.ran /\ collectVars' # collectVars

\* no file of the directory gives a feature column: every file that matches the data
\* extension is skipped, is rejected for having too few rows, or has every column that
\* is asked for dropped (a directory without any file is the extreme case)
NoFeatureColumn(dir, args) ==
    \A i \in Range(TsListing(dir)) :
        \/ FileSkipped(dir[i][1], args)
        \/ ~EnoughDataRead(dir[i][1], Cardinality(InputParcels), args.min_pct)
        \/ \A c \in Range(ColumnsToRead(dir[i][1], args.aggregations)) :
              ColumnDropped(dir[i][1], c, Cardinality(InputParcels), args.min_pct)

\* C16 as stated: a call fails with an error and persists no FeatureTable when the
\* directory has no file matching the data extension, and when the processing of all
\* the files leaves zero feature columns.
C16_FailsWithoutData_AsClaimed ==
    (lastCollect.ran /\ NoFeatureColumn(tsDir, lastCollect.args)) =>
        lastCollect.raised /\ ~lastCollect.written

\* C16: a call that gets past the check of the output file (force is True, or there is
\* no FeatureTable at the output path) fails with an error and writes no file when the
\* directory has no file matching the data extension, and when the processing of all
\* the files leaves zero feature columns; a call with force False that finds a
\* FeatureTable at the output path returns at once without an error.
C16_FailsWithoutData ==
    [][CollectRunStep =>
         /\ (NoFeatureColumn(tsDir, lastCollect'.args)
             /\ (lastCollect'.force \/ featureFile = <<>>))
            => /\ lastCollect'.raised
               /\ ~lastCollect'.written /\ ~lastCollect'.manyNullWritten
               /\ featureFile' = featureFile /\ manyNullFile' = manyNullFile
         /\ (~lastCollect'.force /\ featureFile # <<>>)
            => /\ lastCollect'.returned /\ ~lastCollect'.raised
               /\ featureFile' = featureFile]_vars

\* a forced call on a directory whose files were read but gave no feature column has
\* raised, and the FeatureTable of an earlier call is still at the output path
C16_Witness ==
    /\ lastCollect.ran /\ lastCollect.force /\ lastCollect.raised
    /\ NoFeatureColumn(tsDir, lastCollect.args)
    /\ lastCollect.rejected \cup {ck[1] : ck \in lastCollect.dropped} # {}
    /\ ~lastCollect.written
    /\ featureFile # <<>>

----------------------------------------------------------------------------
(* The rows of a period table *)

\* the files of input_dir that contribute to the period of key in a run: not
\* zero-byte, of an image of the imagetype, a band and an orbit of the key's sensor
\* data type, taken in the seven days from the period's date and in the run's window
ContributingImages(dir, run, key) ==
    {i \in Range(Listing(dir)) :
        LET f == ImageInfos[i].info
            cfg == SensorConfig(key[2])[1]
        IN  /\ ~dir[i][1].empty
            /\ f.imagetype = cfg.imagetype
            /\ \E k \in DOMAIN CellsOf(cfg) :
                  /\ f.band = CellsOf(cfg)[k].band
                  /\ CellsOf(cfg)[k].orbit \in {<<>>, f.orbit}
            /\ Ordinal(f.date) \in Ordinal(key[1])..(Ordinal(key[1]) + 6)
            /\ Ordinal(f.date) >= Ordinal(run.window.start)
            /\ Ordinal(f.date) < Ordinal(run.window.end)}

\* C17: the table written for a period has a row for exactly the EntityIDs that occur
\* in at least one non-empty contributing per-image file of any band/orbit cell of the
\* period (a table has one row for an EntityID), and a period is written only when it
\* has such a file.
C17_PeriodTableRows ==
    (lastRun.ran /\ ~lastRun.raised) =>
        /\ \A key \in lastRun.written :
              /\ ContributingImages(imageDir, lastRun, key) # {}
              /\ DOMAIN periodFiles[key].rows
                   = UNION {DOMAIN imageDir[i][1].rows : i \in ContributingImages(imageDir, lastRun, key)}
        /\ \A key \in lastRun.computed \ lastRun.written :
              ContributingImages(imageDir, lastRun, key) = {}

\* a run wrote a period table from files of two cells with different EntityIDs, next
\* to a zero-byte file or not, and a period table without a row for some EntityID
C17_Witness ==
    /\ lastRun.ran /\ ~lastRun.raised
    /\ \E key \in lastRun.written :
          \E i, j \in ContributingImages(imageDir, lastRun, key) :
             /\ ImageInfos[i].info.band # ImageInfos[j].info.band
             /\ DOMAIN imageDir[i][1].rows # DOMAIN imageDir[j][1].rows
    /\ \E key \in lastRun.written : DOMAIN periodFiles[key].rows # Entities

----------------------------------------------------------------------------
(* The periods of a run *)

\* the week of a date: the number of Mondays of its year up to and including the date
WeekIndex(dt) ==
    Cardinality({n \in Ordinal(Date(dt.year, 1, 1))..Ordinal(dt) : (n + 6) % 7 = 0})

\* the ordinal of the Monday that starts week w of the year; week 0, the days of the
\* year before its first Monday, starts on the Monday before that one
MondayOfWeek(year, w) ==
    LET first_monday == CHOOSE n \in Ordinal(Date(year, 1, 1))..Ordinal(Date(year, 1, 7)) :
                            (n + 6) % 7 = 0
    IN  first_monday + 7 * (w - 1)

\* the passes of the period loop for a sensor data type, in order
PassesOf(run, sensordata_type) ==
    SelectSeq(run.order, LAMBDA pass : pass.key[2] = sensordata_type)

\* C18: the periods processed by a run, for each sensor data type, are exactly the
\* week indices w with week_of(start_date) <= w < week_of(end_date), in increasing
\* order, and the date that names the output file of period w is the Monday of week w
\* of the start date's year.
C18_PeriodBinning ==
    (lastRun.ran /\ ~lastRun.raised) =>
        \A s \in Range(lastRun.sensors) :
            LET passes == PassesOf(lastRun, s)
                first == WeekIndex(lastRun.window.start)
                last == WeekIndex(lastRun.window.end) - 1
            IN  /\ Len(passes) = (IF last >= first THEN last - first + 1 ELSE 0)
                /\ \A k \in DOMAIN passes :
                      /\ passes[k].period_index = first + k - 1
                      /\ Ordinal(passes[k].key[1])
                           = MondayOfWeek(lastRun.window.start.year, passes[k].period_index)
                      /\ Weekday(passes[k].key[1]) = 0
                      /\ passes[k].key \in lastRun.skipped \cup lastRun.computed
                /\ \A key \in lastRun.skipped \cup lastRun.computed \cup lastRun.written :
                      key[2] = s => \E k \in DOMAIN passes : passes[k].key = key

\* a run over a window that starts in week 0 of its year processed week 0, named by a
\* Monday of the year before, and then week 1
C18_Witness ==
    /\ lastRun.ran /\ ~lastRun.raised
    /\ \E s \in Range(lastRun.sensors) :
          /\ Len(PassesOf(lastRun, s)) = 2
          /\ PassesOf(lastRun, s)[1].period_index = 0
          /\ PassesOf(lastRun, s)[1].key[1].year = lastRun.window.start.year - 1
          /\ PassesOf(lastRun, s)[2].period_index = 1
          /\ PassesOf(lastRun, s)[2].key[1].year = lastRun.window.start.year

----------------------------------------------------------------------------
(* When the FeatureTable is rebuilt *)

\* the FeatureTable built in full from the files of the directory, whatever is at the
\* output path
Rebuilt(dir, args) ==
    FinishCollect(CollectFiles(dir, args, InputParcels, 1,
                               [columns |-> <<>>, rows |-> [e \in InputParcels |-> <<>>],
                                raised |-> TsListing(dir) = <<>>, skipped |-> {},
                                rejected |-> {}, checked |-> {}, dropped |-> {}]),
                  <<>>, <<>>)

\* C19 as stated: every call rebuilds the FeatureTable in full from the current
\* PeriodTable files and persists the rebuilt table, whether or not a FeatureTable
\* already exists at the output path.
C19_RebuiltEachCall_AsClaimed ==
    [][CollectRunStep =>
         (~Rebuilt(tsDir, lastCollect'.args).raised
            => /\ lastCollect'.written
               /\ featureFile' = Rebuilt(tsDir, lastCollect'.args).feature)]_vars

\* C19: a call with force True, or that finds no FeatureTable at the output path,
\* rebuilds the FeatureTable in full from the current PeriodTable files and persists
\* the rebuilt table, unless the rebuild fails, which leaves the output path as it
\* was; a call with force False that finds a FeatureTable returns at once and leaves
\* that table, whatever the current PeriodTable files are.
C19_RebuiltWhenForcedOrAbsent ==
    [][CollectRunStep =>
         IF lastCollect'.force \/ featureFile = <<>>
         THEN /\ ~lastCollect'.returned
              /\ lastCollect'.raised = Rebuilt(tsDir, lastCollect'.args).raised
              /\ IF lastCollect'.raised
                 THEN ~lastCollect'.written /\ featureFile' = featureFile
                 ELSE /\ lastCollect'.written
                      /\ featureFile' = Rebuilt(tsDir, lastCollect'.args).feature
         ELSE /\ lastCollect'.returned /\ ~lastCollect'.written /\ ~lastCollect'.raised
              /\ featureFile' = featureFile]_vars

\* a call with force False has returned at once and left a FeatureTable that is not
\* the one the current PeriodTable files give
C19_Witness ==
    /\ lastCollect.ran /\ lastCollect.returned /\ ~lastCollect.force
    /\ ~Rebuilt(tsDir, lastCollect.args).raised
    /\ featureFile # Rebuilt(tsDir, lastCollect.args).feature

----------------------------------------------------------------------------
(* The names of the feature columns *)

\* the columns that the files which pass the filters bring to a join: <<i, c>> is
\* column c of the file at position i
ColumnsToJoin == lastCollect.checked \ lastCollect.dropped

\* C20 as stated: at every join step and in the final FeatureTable the feature column
\* names are pairwise distinct, for any set of period files that pass the sensor,
\* window, band and reducer filters, files that differ only in sensor, period start
\* date, band or time reducer included.
C20_ColumnNamesDistinct_AsClaimed ==
    (lastCollect.ran /\ ~lastCollect.returned) =>
        \A ic, jd \in ColumnsToJoin :
            ic # jd => JoinedName(ic[1], ic[2]) # JoinedName(jd[1], jd[2])

----------------------------------------------------------------------------
(* The filters of collect_and_prepare_timeseries_data on a file *)

\* the files that reach the checks on their content in a call that completes
CandidateFiles ==
    {i \in Range(TsListing(tsDir)) : ~FileSkipped(tsDir[i][1], lastCollect.args)}

\* the number of target entities that the file at position i has a row for
TargetEntitiesIn(i) == Cardinality((DOMAIN tsDir[i][1].rows) \cap InputParcels)

\* the file at position i brings a column to the result
ContributesColumn(i) == \E ic \in lastCollect.checked \ lastCollect.dropped : ic[1] = i

\* C21 as stated: a candidate file contributes no column when the number of target
\* entities it provides data for, as a percentage of the full target collection, is
\* below min_parcels_with_data_pct; a file whose percentage is at the threshold or
\* above is processed.
C21_FileCoverage_AsClaimed ==
    (lastCollect.ran /\ ~lastCollect.returned /\ ~lastCollect.raised) =>
        \A i \in CandidateFiles :
            IF TargetEntitiesIn(i) * 100 < lastCollect.args.min_pct * Cardinality(InputParcels)
            THEN i \in lastCollect.rejected /\ ~ContributesColumn(i)
            ELSE i \notin lastCollect.rejected


\* the file at position i passes every test before it is read but, perhaps, the one on
\* the window: it is not the pixcount file, of a profile and a band that are asked
\* for, of the time reducer asked for if one is asked for, and not zero-byte
PassesOtherFilters(i) ==
    LET file == tsDir[i][1]
        image_profile == Lower(file.fileinfo.image_profile)
        asked == lastCollect.args.images_to_use
    IN  /\ ~file.pixcount
        /\ image_profile \in DOMAIN asked
        /\ file.fileinfo.band \in asked[image_profile].bands
        /\ asked[image_profile].time_reducer \in {<<>>, file.fileinfo.time_reducer}
        /\ ~file.empty

\* the period [file start, file end) of the file at position i lies in the window
\* [start_date, end_date) of the call
PeriodInWindow(i) ==
    /\ Ordinal(tsDir[i][1].fileinfo.start_date) >= Ordinal(lastCollect.args.start_date)
    /\ Ordinal(tsDir[i][1].fileinfo.end_date) <= Ordinal(lastCollect.args.end_date)

----------------------------------------------------------------------------
(* Periods and cells without data *)

\* the contributing files of one band/orbit cell of the period of key
CellImages(contributing, cell) ==
    {i \in contributing :
        /\ ImageInfos[i].info.band = cell.band
        /\ cell.orbit \in {<<>>, ImageInfos[i].info.orbit}}

\* the cells of the sensor data type of key that have columns in table t
CellsWithColumns(t, key) ==
    {k \in DOMAIN CellsOf(SensorConfig(key[2])[1]) :
        \E c \in Range(t.columns) :
            c[1] = <<key[1], SensorConfig(key[2])[1].imagetype,
                     CellsOf(SensorConfig(key[2])[1])[k].orbit,
                     CellsOf(SensorConfig(key[2])[1])[k].band>>}

\* input_dir without its zero-byte files
WithoutZeroByte(dir) == [i \in DOMAIN dir |-> IF dir[i] = <<ZeroByteFile>> THEN <<>> ELSE dir[i]]

\* C23 as stated: zero-byte files contribute nothing; a cell all of whose matching
\* files are absent or zero-byte yields no columns; a period in which no cell has a
\* contributing file has no output file after the run, also when force is True and a
\* file for the period existed before.
C23_NoPlaceholder_AsClaimed ==
    (lastRun.ran /\ ~lastRun.raised) =>
        \A p \in RunWeeks(lastRun) : \A s \in Range(lastRun.sensors) :
            \A key \in {KeyOf(lastRun, p, s)} :
            \A contributing \in {ContributingImages(imageDir, lastRun, key)} :
                IF contributing = {}
                THEN key \notin DOMAIN periodFiles
                ELSE key \in lastRun.written =>
                        CellsWithColumns(periodFiles[key], key)
                          = {k \in DOMAIN CellsOf(SensorConfig(s)[1]) :
                               CellImages(contributing, CellsOf(SensorConfig(s)[1])[k]) # {}}

\* C23: in a call that completes, for every period that the call computes (force is
\* True, or the period had no output file): zero-byte files are skipped and the table
\* is the one the other files give; a cell all of whose matching files are absent or
\* zero-byte yields no columns; a period in which no cell has a contributing file has
\* no output file after the call, an existing one being deleted.  A period whose
\* output file exists is not computed when force is False: the file stays, whatever
\* the input files are.
C23_NoPlaceholder ==
    [][PeriodicRunStep /\ ~lastRun'.raised =>
         \A p \in RunWeeks(lastRun') : \A s \in Range(lastRun'.sensors) :
            \A key \in {KeyOf(lastRun', p, s)} :
            \A contributing \in {ContributingImages(imageDir, lastRun', key)} :
            \A cfg \in {SensorConfig(s)[1]} :
                IF lastRun'.force \/ key \notin DOMAIN periodFiles
                THEN IF contributing = {}
                     THEN key \notin DOMAIN periodFiles' /\ key \notin lastRun'.written
                     ELSE /\ key \in DOMAIN periodFiles' /\ key \in lastRun'.written
                          /\ imageDir # WithoutZeroByte(imageDir) =>
                                <<periodFiles'[key]>>
                                  = Recomputed(WithoutZeroByte(imageDir), lastRun', p, s)
                          /\ CellsWithColumns(periodFiles'[key], key)
                               = {k \in DOMAIN CellsOf(cfg) :
                                    CellImages(contributing, CellsOf(cfg)[k]) # {}}
                ELSE /\ key \in DOMAIN periodFiles' /\ periodFiles'[key] = periodFiles[key]]_vars

\* a forced run has deleted the output file of a period whose only file of the week is
\* zero-byte and has written nothing in its place, and has written the table of a
\* period in which one cell has a contributing file and another has none
C23_Witness ==
    /\ lastRun.ran /\ ~lastRun.raised /\ lastRun.force
    /\ \E key \in lastRun.removed \ lastRun.written :
          /\ key \notin DOMAIN periodFiles
          /\ \E i \in Range(Listing(imageDir)) :
                /\ imageDir[i][1].empty
                /\ Ordinal(ImageInfos[i].info.date) \in Ordinal(key[1])..(Ordinal(key[1]) + 6)
                /\ ImageInfos[i].info.imagetype = SensorConfig(key[2])[1].imagetype
    /\ \E key \in lastRun.written :
          /\ CellsWithColumns(periodFiles[key], key) # {}
          /\ CellsWithColumns(periodFiles[key], key) # DOMAIN CellsOf(SensorConfig(key[2])[1])

----------------------------------------------------------------------------
(* Specification of the binning of one catalog entry into the periods of a run *)

\* the entry of the catalog for an image of a date: the week is int(strftime('%W'))
CatalogEntry(dt, imagetype, band, orbit) ==
    [filepath |-> <<>>, imagetype |-> imagetype, filename |-> <<>>, date |-> dt,
     week |-> WeekOfYear(dt), band |-> band, orbit |-> orbit]

\* the passes of the loops over the periods and the cells in which period_files_df
\* holds the entry f, for one sensordata_type
BinEntry(f, sensordata_type, start_date, end_date) ==
    LET cfg == SensorConfig(sensordata_type)[1]
        needed == NeededFiles(<<f>>, cfg, start_date, end_date)
    IN  {pc \in [period_index : WeekOfYear(start_date)..(WeekOfYear(end_date) - 1),
                 cell : DOMAIN CellsOf(cfg)] :
            PeriodFilesDf(needed, pc.period_index, CellsOf(cfg)[pc.cell].band,
                          CellsOf(cfg)[pc.cell].orbit) # <<>>}

BinStarts == {Date(2018, 1, 1), Date(2018, 1, 3), Date(2018, 12, 17), Date(2019, 1, 1)}
BinEnds == {Date(2018, 1, 10), Date(2018, 1, 15), Date(2019, 1, 9), Date(2019, 12, 31)}
BinDates ==
    {Date(2018, 1, 1), Date(2018, 1, 2), Date(2018, 1, 8), Date(2018, 1, 9),
     Date(2018, 1, 14), Date(2018, 12, 18), Date(2018, 12, 31), Date(2019, 1, 1),
     Date(2019, 1, 7), Date(2019, 12, 24)}
BinEntries ==
    {CatalogEntry(dt, IMAGETYPE_S1_GRD, Str_VV, <<Str_ASC>>) : dt \in BinDates}
    \cup {CatalogEntry(dt, IMAGETYPE_S2_L2A, Str_B02_10m, <<>>) : dt \in BinDates}

InitBinning ==
    /\ binInput \in [entry : BinEntries,
                     sensordata_type : {SENSORDATA_S1_ASCDESC, SENSORDATA_S2gt95},
                     start_date : BinStarts, end_date : BinEnds]
    /\ binOutput = <<>>
    /\ IdleCell
    /\ fiInput = IdleInput /\ fiResult = <<>>
    /\ IdleRun
    /\ IdleCollect
    /\ IdleRescale

\* the loops over the periods and the cells of one sensordata_type, for one entry
BinStep ==
    /\ binInput # <<>>
    /\ binOutput = <<>>
    /\ binOutput' = <<BinEntry(binInput.entry, binInput.sensordata_type,
                               binInput.start_date, binInput.end_date)>>
    /\ UNCHANGED <<binInput, combVars, parseVars, runVars, collectVars, rescaleVars>>

NextBinning == BinStep

SpecBinning == InitBinning /\ [][NextBinning]_vars

\* the entry is of the imagetype and a band of the sensordata_type asked for, and its
\* date is in [start_date, end_date)
EntryAsked ==
    /\ binInput.entry.imagetype = SensorConfig(binInput.sensordata_type)[1].imagetype
    /\ binInput.entry.band \in Range(SensorConfig(binInput.sensordata_type)[1].bands)
    /\ Ordinal(binInput.entry.date) >= Ordinal(binInput.start_date)
    /\ Ordinal(binInput.entry.date) < Ordinal(binInput.end_date)

\* the period's date is the Monday of the week of the entry's date
InWeekOf(period_index) ==
    Ordinal(binInput.entry.date) - Ordinal(PeriodDate(binInput.start_date.year, period_index))
        \in 0..6

\* C24 as stated: every catalog entry of a requested sensor type and band whose date d
\* satisfies start_date <= d < end_date contributes to exactly one period cell, that
\* of the period whose index is the entry's week index, and the period's Monday M
\* satisfies M <= d < M + 7 days, for any start and end date.
C24_EntryInOnePeriod_AsClaimed ==
    (binOutput # <<>> /\ EntryAsked) =>
        /\ Cardinality(binOutput[1]) = 1
        /\ \A pc \in binOutput[1] :
              /\ pc.period_index = WeekIndex(binInput.entry.date)
              /\ InWeekOf(pc.period_index)

\* C24: a catalog entry of a requested sensor type and band whose date d satisfies
\* start_date <= d < end_date contributes to at most one period cell.  It contributes
\* to one, the cell of the period whose index is the entry's own week index w, exactly
\* when week_of(start_date) <= w < week_of(end_date); an entry of the week of the end
\* date, or of a window whose end date has no later week index than its start date,
\* contributes to none.  The period's Monday M satisfies M <= d < M + 7 days exactly
\* when d is of the start date's year.  An entry that is not asked for contributes to
\* no cell.
C24_EntryInOnePeriod ==
    binOutput # <<>> =>
        /\ Cardinality(binOutput[1]) <= 1
        /\ binOutput[1] # {} <=>
              /\ EntryAsked
              /\ WeekIndex(binInput.entry.date) >= WeekIndex(binInput.start_date)
              /\ WeekIndex(binInput.entry.date) < WeekIndex(binInput.end_date)
        /\ \A pc \in binOutput[1] :
              /\ pc.period_index = WeekIndex(binInput.entry.date)
              /\ InWeekOf(pc.period_index)
                   <=> binInput.entry.date.year = binInput.start_date.year

\* an entry of the start date's year was put in the period of its week, in a window
\* that starts in mid-week
C24_Witness ==
    /\ binOutput # <<>> /\ EntryAsked
    /\ Weekday(binInput.start_date) # 0
    /\ Cardinality(binOutput[1]) = 1
    /\ \A pc \in binOutput[1] : InWeekOf(pc.period_index)

----------------------------------------------------------------------------
(* Specification of the runs of calculate_periodic_data on an input directory in which
   a file with a name that get_file_info cannot parse comes and goes *)

InitCatalog == InitPeriodic

\* the environment adds or removes the file with the unparseable name
ChangeUnparseable ==
    \E c \in UnparseableChoices :
        /\ c # imageDir[UnparseableName]
        /\ imageDir' = [imageDir EXCEPT ![UnparseableName] = c]
        /\ lastRun' = NoRun
        /\ UNCHANGED <<periodFiles, pixcountFile, combVars, parseVars, collectVars,
                       rescaleVars, binVars>>

NextCatalog == RunPeriodic \/ ChangeUnparseable

SpecCatalog == InitCatalog /\ [][NextCatalog]_vars

\* a file of input_dir with the input extension has a name get_file_info cannot parse
HasUnparseable(dir) == \E i \in Range(Listing(dir)) : ~ImageInfos[i].ok

\* C25: if any file with the input extension has a name that get_file_info cannot
\* parse, calculate_periodic_data raises while it builds the catalog: no period is
\* processed and no period table or pixel-count file is written or deleted, force or
\* not, also when the file is of a sensor type that is not asked for.
C25_UnparseableAborts ==
    [][PeriodicRunStep /\ HasUnparseable(imageDir) =>
         /\ lastRun'.raised
         /\ lastRun'.order = <<>>
         /\ lastRun'.written = {} /\ lastRun'.removed = {} /\ ~lastRun'.pixWritten
         /\ periodFiles' = periodFiles
         /\ pixcountFile' = pixcountFile]_vars

\* a forced run on a directory that holds period tables and the pixel-count file of
\* an earlier run has raised because of the coherence file with the unparseable date,
\* next to files of the sensor types that are asked for
C25_Witness ==
    /\ lastRun.ran /\ lastRun.raised /\ lastRun.force
    /\ imageDir[UnparseableName] # <<>>
    /\ ImageInfos[UnparseableName].ok = FALSE
    /\ \E i \in Range(Listing(imageDir)) : ImageInfos[i].ok
    /\ periodFiles # <<>> /\ pixcountFile # <<>>

----------------------------------------------------------------------------
(* The column of the pixel-count file *)

\* the cells, by their place in the band-then-orbit order, that produced data for the
\* period of key in the last run
CellsWithData(key) ==
    {k \in DOMAIN CellsOf(SensorConfig(key[2])[1]) :
        CellImages(ContributingImages(imageDir, lastRun, key),
                   CellsOf(SensorConfig(key[2])[1])[k]) # {}}

\* the combined count of cell k in table t of the period of key, missing values as 0
CellCountOf(t, key, k) ==
    [e \in DOMAIN t.rows |->
        LET v == t.rows[e][<< <<key[1], SensorConfig(key[2])[1].imagetype,
                                CellsOf(SensorConfig(key[2])[1])[k].orbit,
                                CellsOf(SensorConfig(key[2])[1])[k].band>>, "count">>]
        IN  IF IsNaN(v) THEN R(0) ELSE v]

FirstOf(S) == CHOOSE k \in S : \A j \in S : k <= j
LastOf(S) == CHOOSE k \in S : \A j \in S : k >= j

\* C26 as stated: the column of the pixel-count file is the combined count of the
\* first (band, orbit) cell, in band-then-orbit order, that produced data for the
\* period.
C26_PixcountColumn_AsClaimed ==
    (lastRun.ran /\ lastRun.pixWritten) =>
        pixcountFile[1]
          = CellCountOf(periodFiles[FirstWritten(lastRun)], FirstWritten(lastRun),
                        FirstOf(CellsWithData(FirstWritten(lastRun))))

\* C26: the column of the pixel-count file is the combined count of the last (band,
\* orbit) cell, in band-then-orbit order, that produced data for the period: each
\* cell's columns are put in front of those of the cells before it, and the first
\* column of the period table that ends in '_count' is taken.
C26_PixcountColumn ==
    (lastRun.ran /\ lastRun.pixWritten) =>
        pixcountFile[1]
          = CellCountOf(periodFiles[FirstWritten(lastRun)], FirstWritten(lastRun),
                        LastOf(CellsWithData(FirstWritten(lastRun))))

\* a run wrote the pixel-count file from a period in which two cells produced data
\* with different counts
C26_Witness ==
    /\ lastRun.ran /\ lastRun.pixWritten
    /\ Cardinality(CellsWithData(FirstWritten(lastRun))) >= 2
    /\ CellCountOf(periodFiles[FirstWritten(lastRun)], FirstWritten(lastRun),
                   FirstOf(CellsWithData(FirstWritten(lastRun))))
         # CellCountOf(periodFiles[FirstWritten(lastRun)], FirstWritten(lastRun),
                       LastOf(CellsWithData(FirstWritten(lastRun))))

----------------------------------------------------------------------------
(* The pixel-count file over a sequence of runs *)

\* C27: once the pixel-count file exists, no step changes, removes or rewrites it,
\* whatever the window, the sensor types and force of the later runs and whatever
\* happened to the input images in between; the file appears in the run that writes
\* the first period table of the output directory, with the values of that table's
\* first '_count' column, and keeps them.
C27_PixcountWriteOnce ==
    [][/\ pixcountFile # <<>> => pixcountFile' = pixcountFile
       /\ (pixcountFile = <<>> /\ pixcountFile' # <<>>) =>
            /\ DOMAIN periodFiles = {}
            /\ pixcountFile' = <<PixcountOf(periodFiles'[FirstWritten(lastRun')])>>
       /\ (pixcountFile = <<>> /\ pixcountFile' = <<>>) => DOMAIN periodFiles' = {}]_vars

\* a run with force True removed and rewrote period tables from changed input images
\* and did not write the pixel-count file, which holds values that the first '_count'
\* column of no period table of the directory holds any more
C27_Witness ==
    /\ lastRun.ran /\ ~lastRun.raised /\ lastRun.force
    /\ lastRun.removed \cap lastRun.written # {}
    /\ ~lastRun.pixWritten
    /\ pixcountFile # <<>>
    /\ \A key \in DOMAIN periodFiles : PixcountOf(periodFiles[key]) # pixcountFile[1]

=============================================================================
